---- MODULE Spec2Model ----
(***************************************************************************)
(* Model of the evolution simulation engine: the grid environment          *)
(* (core_lib/src/environment.rs), the creature agent                       *)
(* (core_lib/src/creature.rs) and the neural network brain                 *)
(* (src/neural_net.rs).                                                    *)
(*                                                                         *)
(* One call of EnvironmentV1::advance_step is modelled by the chain        *)
(*   StartStep ; CreatureTurn* ; RemoveDead ; PlaceOffspring* ; FinishStep *)
(* driven by the position variable pc; the single-cell mutators of the     *)
(* front ends are only enabled between two calls (pc = "idle").            *)
(***************************************************************************)
EXTENDS Integers, Sequences, FiniteSets, TLC

VARIABLES
    params,               \* EnvironmentV1.params
    creatures,            \* EnvironmentV1.creatures (ordered list)
    positions,            \* EnvironmentV1.positions[x][y]
    time_step,            \* EnvironmentV1.time_step
    num_food,             \* EnvironmentV1.num_food
    num_creatures,        \* EnvironmentV1.num_creatures
    num_blank,            \* EnvironmentV1.num_blank
    num_walls,            \* EnvironmentV1.num_walls
    num_total_creatures,  \* EnvironmentV1.num_total_creatures
    num_kills,            \* EnvironmentV1.num_kills
    num_natural_deaths,   \* EnvironmentV1.num_natural_deaths
    pc,                   \* position inside advance_step ("idle" between calls)
    creature_idx,         \* loop variable of the creature loop of advance_step
    temp_new_creatures,   \* pending offspring of the running advance_step
    turn,                 \* history: the action the last creature turn returned,
                          \*          whether the brain was asked, and the state
                          \*          of the environment before that turn (before
                          \*          the step, when no turn was taken in it yet)
    created_ids,          \* history: every id handed to a creature, in order
    removed_ids,          \* history: ids of the creatures removed from the list
    last_removed,         \* history: the creatures the last remove_dead_creatures
                          \*          took from the list, as they were then
    ticks,                \* history: advance_step calls started in this run
    inputs,               \* history: brain decisions other than Stay and
                          \*          single-cell mutator calls in this run
    food_added,           \* history: new food pieces added in this run
    last_call,            \* history: the last call that returned
    call,                 \* history: the call that is running or was made
                          \*          last, with its arguments, when it is not a
                          \*          direct call of advance_step
    brain,                \* a creature's Brain (net and slot mappings)
    child,                \* the Brain that Brain::new_copy returned, with the
                          \* mutation probability it was called with
    next_action           \* what Brain::get_next_action returned

envVars == <<params, creatures, positions, time_step, num_food, num_creatures,
             num_blank, num_walls, num_total_creatures, num_kills,
             num_natural_deaths, pc, creature_idx, temp_new_creatures, turn,
             created_ids, removed_ids, last_removed, ticks, inputs, food_added,
             last_call, call>>
brainVars == <<brain, child, next_action>>
vars == <<envVars, brainVars>>

-----------------------------------------------------------------------------
(* Bounds of the model *)

EnvX == 3           \* env_x_size of the explored environments
EnvY == 2           \* env_y_size of the explored environments
MaxTicks == 2       \* advance_step calls per run
MaxInputs == 2      \* brain decisions other than Stay plus mutator calls per run
WideLen == 7        \* cells of the long grids the offspring placement is explored on
MaxNewFood == 1     \* new food pieces add_new_food_pieces adds per run
FightRunTicks == 22 \* advance_step calls of a run that outlasts a fight space
NumInputs == 1      \* input neurons of a brain
NumHidden == 1      \* hidden layers of a brain
HiddenSize == 1     \* neurons of a hidden layer
NumOutputs == 3     \* output neurons of a brain
MaxInputVal == 1    \* largest value an input neuron is set to

-----------------------------------------------------------------------------
(* Program constants *)

MAX_POSSIBLE_ENERGY == 200
MAX_POSSIBLE_AGE == 200
DEFAULT_ENERGY_LEVEL == 40
DEFAULT_MIN_REPRODUCE_ENERGY == DEFAULT_ENERGY_LEVEL + 1
DEFAULT_REPRODUCE_ENERGY_COST == DEFAULT_ENERGY_LEVEL
DEFAULT_MOVE_ENERGY_COST == 1
DEFAULT_ROTATE_ENERGY_COST == 1
DEFAULT_KILL_ENERGY_COST == 1
DEFAULT_ENERGY_PER_FOOD_PIECE == 40
DEFAULT_ENERGY_PER_KILL == 30
DEFAULT_OFFSPRING_PER_REPRODUCE == 2
MAX_OFFSPRING_SPAWN_DIST == 3
MAX_CREATURE_VIEW_DISTANCE == 5
FOOD_SPACE_COLOR == <<40, 255, 40>>
WALL_SPACE_COLOR == <<200, 200, 200>>
DEFAULT_CREATURE_COLOR == <<0, 75, 255>>
MIN_COLOR_DEVIATION == -100
MAX_COLOR_DEVIATION == 100
FIGHT_SPACE_PERSISTENCE_STEPS == 20
WATCHDOG_ATTEMPTS == 10000
BRAIN_MAX_INIT_NODE_VAL == 50
BRAIN_MIN_INIT_NODE_VAL == 0 - BRAIN_MAX_INIT_NODE_VAL

\* CreatureActions in the order of ENABLED_CREATURE_ACTIONS: the action of
\* output neuron i is ENABLED_CREATURE_ACTIONS[i + 1]
ENABLED_CREATURE_ACTIONS ==
    <<"Stay", "MoveForwards", "MoveBackwards", "MoveLeft", "MoveRight",
      "RotateCCW", "RotateCW", "Reproduce", "Kill">>
CreatureActions == {ENABLED_CREATURE_ACTIONS[i] : i \in 1..Len(ENABLED_CREATURE_ACTIONS)}
MoveActions == {"MoveForwards", "MoveBackwards", "MoveLeft", "MoveRight"}
CreatureOrientation == {"Up", "Down", "Left", "Right"}

\* SpaceStates
BlankSpace == [t |-> "Blank", v |-> 0]
FoodSpace == [t |-> "Food", v |-> 0]
WallSpace == [t |-> "Wall", v |-> 0]
CreatureSpace(id) == [t |-> "Creature", v |-> id]
FightSpace(ttl) == [t |-> "Fight", v |-> ttl]

XS == 0..(EnvX - 1)
YS == 0..(EnvY - 1)
Pos(x, y) == [x |-> x, y |-> y]
Cells == {Pos(x, y) : x \in XS, y \in YS}

\* CreatureParams::new
DefaultCreatureParams ==
    [reproduce_energy_cost |-> DEFAULT_REPRODUCE_ENERGY_COST,
     move_energy_cost |-> DEFAULT_MOVE_ENERGY_COST,
     rotate_energy_cost |-> DEFAULT_ROTATE_ENERGY_COST,
     kill_energy_cost |-> DEFAULT_KILL_ENERGY_COST,
     starting_energy |-> DEFAULT_ENERGY_LEVEL]

\* the vision reading every constructor and update_creature_vision starts from
NoVision ==
    [obj_in_view |-> FALSE, dist |-> 0, color |-> <<0, 0, 0>>, space_type |-> BlankSpace]

Abs(n) == IF n < 0 THEN -n ELSE n
Min(a, b) == IF a < b THEN a ELSE b
Max(a, b) == IF a < b THEN b ELSE a

-----------------------------------------------------------------------------
(* Creature (core_lib/src/creature.rs) *)

\* Creature::new followed by set_position and set_orientation (new_rand)
NewCreature(id, pos, orient) ==
    [params |-> DefaultCreatureParams, id |-> id, is_alive |-> TRUE,
     killed |-> FALSE, position |-> pos, orientation |-> orient,
     energy |-> DEFAULT_ENERGY_LEVEL, vision_state |-> NoVision, age |-> 0,
     last_action |-> "Stay", color |-> DEFAULT_CREATURE_COLOR]

\* u8::saturating_add and u8::saturating_sub
saturating_add_u8(a, b) == IF a + b > 255 THEN 255 ELSE a + b
saturating_sub_u8(a, b) == IF b > a THEN 0 ELSE a - b

\* Creature::apply_random_color_mutation: deviation holds, for red, green
\* and blue, the amount drawn for the component, 0 also standing for a
\* component whose draw was above the mutation probability; a dark colour
\* is then brightened
apply_random_color_mutation(color, deviation) ==
    LET component(k) ==
            IF deviation[k] < 0 THEN saturating_sub_u8(color[k], -deviation[k])
            ELSE saturating_add_u8(color[k], deviation[k])
        color_sum == component(1) + component(2) + component(3)
        brightness_diff == (255 - color_sum) \div 3
    IN  IF color_sum < 255
        THEN <<component(1) + brightness_diff, component(2) + brightness_diff,
               component(3) + brightness_diff>>
        ELSE <<component(1), component(2), component(3)>>

\* Creature::new_offspring (COLOR_MODE_VIOLENCE is false; the brain copy is
\* not part of the environment model)
new_offspring(id, parent, deviation) ==
    [params |-> parent.params, id |-> id, is_alive |-> TRUE, killed |-> FALSE,
     position |-> parent.position, orientation |-> parent.orientation,
     energy |-> parent.params.starting_energy, vision_state |-> NoVision,
     age |-> 0, last_action |-> "Stay",
     color |-> apply_random_color_mutation(parent.color, deviation)]

\* is_dead without the test of the age
is_dead_energy_only(c) == ~(c.energy > 0)

\* Creature::is_dead
is_dead(c) == ~(c.energy > 0 /\ c.age < MAX_POSSIBLE_AGE)

\* eat_food without the cap at MAX_POSSIBLE_ENERGY
eat_food_uncapped(c, food_energy) == [c EXCEPT !.energy = @ + food_energy]

\* Creature::eat_food
eat_food(c, food_energy) ==
    IF c.energy + food_energy > MAX_POSSIBLE_ENERGY
    THEN [c EXCEPT !.energy = MAX_POSSIBLE_ENERGY]
    ELSE [c EXCEPT !.energy = @ + food_energy]

\* kill without the energy set to 0
kill_keeps_energy(c) == [c EXCEPT !.is_alive = FALSE, !.killed = TRUE]

\* Creature::kill
kill(c) == [c EXCEPT !.energy = 0, !.is_alive = FALSE, !.killed = TRUE]

\* usize::saturating_sub
saturating_sub(a, b) == IF b > a THEN 0 ELSE a - b

\* Creature::apply_rotation
apply_rotation(orient, action) ==
    CASE orient = "Up" ->
           (CASE action = "RotateCCW" -> "Left" [] action = "RotateCW" -> "Right"
              [] OTHER -> orient)
      [] orient = "Left" ->
           (CASE action = "RotateCCW" -> "Down" [] action = "RotateCW" -> "Up"
              [] OTHER -> orient)
      [] orient = "Down" ->
           (CASE action = "RotateCCW" -> "Right" [] action = "RotateCW" -> "Left"
              [] OTHER -> orient)
      [] orient = "Right" ->
           (CASE action = "RotateCCW" -> "Up" [] action = "RotateCW" -> "Down"
              [] OTHER -> orient)

\* the match with the rotations left out (they fall to the last arm)
action_cost_rotation_free(c, action) ==
    CASE action = "Reproduce" -> c.params.reproduce_energy_cost
      [] action \in MoveActions -> c.params.move_energy_cost
      [] action = "Kill" -> c.params.kill_energy_cost
      [] OTHER -> 0

\* the match of perform_next_action that prices the chosen action
action_cost(c, action) ==
    CASE action = "Reproduce" -> c.params.reproduce_energy_cost
      [] action \in MoveActions -> c.params.move_energy_cost
      [] action \in {"RotateCCW", "RotateCW"} -> c.params.rotate_energy_cost
      [] action = "Kill" -> c.params.kill_energy_cost
      [] OTHER -> 0

\* perform_next_action without the early return for a dead creature: the
\* brain is asked and the rotation applied whatever the creature's state
perform_next_action_dead_acts(c, brain_action) ==
    IF is_dead(c) THEN
        [creature |-> [c EXCEPT !.last_action = brain_action,
                                !.orientation = apply_rotation(@, brain_action)],
         action |-> "Stay", evaluated |-> TRUE, underflow |-> FALSE]
    ELSE
        LET c1 == [c EXCEPT !.age = @ + 1] IN
        IF c1.energy > DEFAULT_MIN_REPRODUCE_ENERGY THEN
            [creature |-> [c1 EXCEPT
                             !.energy = saturating_sub(@, c1.params.reproduce_energy_cost),
                             !.last_action = "Reproduce"],
             action |-> "Reproduce", evaluated |-> FALSE,
             underflow |-> c1.params.reproduce_energy_cost > c1.energy]
        ELSE
            LET c2 == [c1 EXCEPT
                         !.last_action = brain_action,
                         !.orientation = apply_rotation(@, brain_action),
                         !.energy = saturating_sub(@, action_cost(c1, brain_action))]
            IN  IF c2.energy = 0
                THEN [creature |-> [c2 EXCEPT !.is_alive = FALSE], action |-> "Stay",
                      evaluated |-> TRUE, underflow |-> FALSE]
                ELSE [creature |-> c2, action |-> brain_action,
                      evaluated |-> TRUE, underflow |-> FALSE]

\* Creature::perform_next_action. brain_action is what Brain::get_next_action
\* returns if it is called. The result holds the creature afterwards, the
\* returned action, whether the brain was evaluated, and whether the plain
\* usize subtraction of the forced reproduction went below zero.
perform_next_action(c, brain_action) ==
    IF is_dead(c) THEN
        [creature |-> [c EXCEPT !.last_action = "Stay"], action |-> "Stay",
         evaluated |-> FALSE, underflow |-> FALSE]
    ELSE IF ~(c.age < MAX_POSSIBLE_AGE) THEN
        [creature |-> [c EXCEPT !.is_alive = FALSE], action |-> "Stay",
         evaluated |-> FALSE, underflow |-> FALSE]
    ELSE
        LET c1 == [c EXCEPT !.age = @ + 1] IN
        IF c1.energy > DEFAULT_MIN_REPRODUCE_ENERGY THEN
            [creature |-> [c1 EXCEPT
                             !.energy = saturating_sub(@, c1.params.reproduce_energy_cost),
                             !.last_action = "Reproduce"],
             action |-> "Reproduce", evaluated |-> FALSE,
             underflow |-> c1.params.reproduce_energy_cost > c1.energy]
        ELSE
            LET c2 == [c1 EXCEPT
                         !.last_action = brain_action,
                         !.orientation = apply_rotation(@, brain_action),
                         !.energy = saturating_sub(@, action_cost(c1, brain_action))]
            IN  IF c2.energy = 0
                THEN [creature |-> [c2 EXCEPT !.is_alive = FALSE], action |-> "Stay",
                      evaluated |-> TRUE, underflow |-> FALSE]
                ELSE [creature |-> c2, action |-> brain_action,
                      evaluated |-> TRUE, underflow |-> FALSE]

-----------------------------------------------------------------------------
(* Matrix (core_lib/src/linalg.rs), NeuralNet (src/neural_net.rs) and      *)
(* Brain (core_lib/src/creature.rs). A Matrix is the sequence of its rows; *)
(* the f32 values are integers.                                            *)

\* the values a weight or bias is sampled at: the two ends of the range
NodeVals == {BRAIN_MIN_INIT_NODE_VAL, BRAIN_MAX_INIT_NODE_VAL}

\* the values an input neuron is set to
InputVals == 0..MaxInputVal

\* layer_sizes of Brain::new: BRAIN_LAYER_SIZES with the first and the last
\* entry overwritten
BrainLayerSizes ==
    <<NumInputs>> \o [i \in 1..NumHidden |-> HiddenSize] \o <<NumOutputs>>

\* Matrix::new
ZeroMatrix(nrows, ncols) == [i \in 1..nrows |-> [j \in 1..ncols |-> 0]]

\* every result of Matrix::random
RandomMatrices(nrows, ncols) == [1..nrows -> [1..ncols -> NodeVals]]

\* the inner loop of Matrix::mult: the sum over the first k products
RECURSIVE mult_entry(_, _, _, _, _)
mult_entry(a, b, i, j, k) ==
    IF k = 0 THEN 0 ELSE mult_entry(a, b, i, j, k - 1) + a[i][k] * b[k][j]

\* Matrix::mult
mult(a, b) ==
    [i \in 1..Len(a) |-> [j \in 1..Len(b[1]) |-> mult_entry(a, b, i, j, Len(a[1]))]]

\* Matrix::add
add(a, b) == [i \in 1..Len(a) |-> [j \in 1..Len(a[1]) |-> a[i][j] + b[i][j]]]

\* relu that lets every number through
relu_identity(num) == num

\* NeuralNet::relu
relu(num) == IF num >= 0 THEN num ELSE 0

\* the matrices NeuralNet::new pushes for the layers 1..n, one per layer
RECURSIVE random_layers(_, _, _)
random_layers(layer_sizes, n, as_bias) ==
    IF n = 0 THEN {<<>>}
    ELSE {Append(s, m) :
            s \in random_layers(layer_sizes, n - 1, as_bias),
            m \in RandomMatrices(layer_sizes[n + 1],
                                 IF as_bias THEN 1 ELSE layer_sizes[n])}

\* every result of NeuralNet::new
NewNeuralNets(layer_sizes) ==
    {[num_layers |-> Len(layer_sizes), weights |-> w, biases |-> b,
      activations |-> [l \in 1..Len(layer_sizes) |-> ZeroMatrix(layer_sizes[l], 1)]] :
        w \in random_layers(layer_sizes, Len(layer_sizes) - 1, FALSE),
        b \in random_layers(layer_sizes, Len(layer_sizes) - 1, TRUE)}

\* the first loop of evaluate_network, from layer_num on
RECURSIVE feed_forward(_, _)
feed_forward(nn, layer_num) ==
    IF layer_num > nn.num_layers - 1 THEN nn
    ELSE LET sum == add(mult(nn.weights[layer_num], nn.activations[layer_num]),
                        nn.biases[layer_num])
             act == [i \in 1..Len(sum) |-> <<relu(sum[i][1])>>]
         IN  feed_forward([nn EXCEPT !.activations[layer_num + 1] = act],
                          layer_num + 1)

\* the two values of Result<usize, NeuralNetErrors>
Ok(i) == [ok |-> TRUE, v |-> i]
OUTPUT_ACTIVATION_ERROR == [ok |-> FALSE, v |-> 0]

\* the second loop of evaluate_network with a strict comparison
RECURSIVE max_act_scan_strict(_, _, _, _)
max_act_scan_strict(output_layer, i, max_act, max_act_node) ==
    IF i > Len(output_layer) THEN max_act_node
    ELSE LET act == output_layer[i][1] IN
         IF act > max_act
         THEN max_act_scan_strict(output_layer, i + 1, act, Ok(i - 1))
         ELSE max_act_scan_strict(output_layer, i + 1, max_act, max_act_node)

\* the second loop of evaluate_network, from row i on (output indices count
\* from 0)
RECURSIVE max_act_scan(_, _, _, _)
max_act_scan(output_layer, i, max_act, max_act_node) ==
    IF i > Len(output_layer) THEN max_act_node
    ELSE LET act == output_layer[i][1] IN
         IF act >= max_act
         THEN max_act_scan(output_layer, i + 1, act, Ok(i - 1))
         ELSE max_act_scan(output_layer, i + 1, max_act, max_act_node)

\* NeuralNet::evaluate_network: the network afterwards and the result
evaluate_network(nn) ==
    LET fed == feed_forward(nn, 1) IN
    [net |-> fed,
     result |-> max_act_scan(fed.activations[fed.num_layers], 1, 0,
                             OUTPUT_ACTIVATION_ERROR)]

\* NeuralNet::set_input_node
set_input_node(nn, input_node_idx, val) ==
    [nn EXCEPT !.activations[1][input_node_idx + 1] = <<val>>]

\* rng.gen::<f32>() and mutation_prob, both in units of 1/DrawUnit: the
\* draws are in [0, 1)
DrawUnit == 4
Draws == {0, 2}
MutationProbs == {0, 1, DrawUnit}

\* the test of apply_rand_mutations that decides whether an entry is set anew
mutates(draw, mutation_prob) == draw <= mutation_prob

\* what one weight or bias can be after apply_rand_mutations
scalar_outcomes(val, mutation_prob) ==
    {IF mutates(d, mutation_prob) THEN fresh ELSE val : d \in Draws, fresh \in NodeVals}

\* matrix_outcomes with fresh values sampled from twice the range
matrix_outcomes_wide(m, mutation_prob) ==
    {c \in [1..Len(m) -> [1..Len(m[1]) ->
                {2 * v : v \in NodeVals} \cup {m[i][j] : i \in 1..Len(m), j \in 1..Len(m[1])}]] :
        \A i \in 1..Len(m) : \A j \in 1..Len(m[1]) :
            c[i][j] \in {IF mutates(d, mutation_prob) THEN 2 * fresh ELSE m[i][j] :
                            d \in Draws, fresh \in NodeVals}}

\* the matrices whose every entry is an outcome for the same entry of m
matrix_outcomes(m, mutation_prob) ==
    {c \in [1..Len(m) -> [1..Len(m[1]) ->
                NodeVals \cup {m[i][j] : i \in 1..Len(m), j \in 1..Len(m[1])}]] :
        \A i \in 1..Len(m) : \A j \in 1..Len(m[1]) :
            c[i][j] \in scalar_outcomes(m[i][j], mutation_prob)}

\* the same for the list of matrices ms, up to layer n
RECURSIVE layers_outcomes(_, _, _)
layers_outcomes(ms, n, mutation_prob) ==
    IF n = 0 THEN {<<>>}
    ELSE {Append(s, m) : s \in layers_outcomes(ms, n - 1, mutation_prob),
                         m \in matrix_outcomes(ms[n], mutation_prob)}

\* NeuralNet::apply_rand_mutations: every network it can leave behind
apply_rand_mutations(nn, mutation_prob) ==
    {[nn EXCEPT !.weights = w, !.biases = b] :
        w \in layers_outcomes(nn.weights, nn.num_layers - 1, mutation_prob),
        b \in layers_outcomes(nn.biases, nn.num_layers - 1, mutation_prob)}

\* the slot mappings Creature::new hands to Brain::new
input_node_types == [i \in 1..NumInputs |-> i]
output_node_types == SubSeq(ENABLED_CREATURE_ACTIONS, 1, NumOutputs)

\* every result of Brain::new
NewBrains ==
    {[net |-> nn, input_node_types |-> input_node_types,
      output_node_types |-> output_node_types] : nn \in NewNeuralNets(BrainLayerSizes)}

\* every result of Brain::new_copy
new_copy(other_brain, mutation_prob) ==
    {[net |-> nn, input_node_types |-> other_brain.input_node_types,
      output_node_types |-> other_brain.output_node_types] :
        nn \in apply_rand_mutations(other_brain.net, mutation_prob)}

\* Brain::set_input
set_input(b, neuron_idx, value) ==
    [b EXCEPT !.net = set_input_node(@, neuron_idx, value)]

\* Brain::get_next_action: the brain afterwards and the action; the unwrap
\* of an error panics
get_next_action(b) ==
    LET e == evaluate_network(b.net) IN
    [brain |-> [b EXCEPT !.net = e.net],
     action |-> IF e.result.ok THEN b.output_node_types[e.result.v + 1] ELSE "panic"]

\* no brain
NoBrain == <<>>

-----------------------------------------------------------------------------
(* Environment helpers (core_lib/src/environment.rs) *)

CellAt(grid, p) == grid[p.x][p.y]
SetCell(grid, p, s) == [grid EXCEPT ![p.x][p.y] = s]
GridCells(grid) == {Pos(x, y) : x \in DOMAIN grid, y \in DOMAIN grid[0]}
CellsOfKind(grid, kind) == {p \in GridCells(grid) : CellAt(grid, p).t = kind}

\* EnvironmentV1::get_creature_idx_from_id: the first index holding the id,
\* 0 standing for Err("Invalid creature id")
get_creature_idx_from_id(list, creature_id) ==
    IF \E i \in 1..Len(list) : list[i].id = creature_id
    THEN CHOOSE i \in 1..Len(list) :
            /\ list[i].id = creature_id
            /\ \A j \in 1..(i - 1) : list[j].id # creature_id
    ELSE 0

\* the FightSpace arm of update_space_counters without the end of the time
\* to live
decay_fight_space_keeps_zero(s) ==
    IF s.t = "Fight" /\ s.v > 0 THEN FightSpace(s.v - 1) ELSE s

\* the grid part of update_space_counters: every FightSpace loses one step
\* of its time to live, or disappears when none is left
decay_fight_space(s) ==
    IF s.t = "Fight"
    THEN (IF s.v > 0 THEN FightSpace(s.v - 1) ELSE BlankSpace)
    ELSE s

\* the counters update_space_counters derives from the grid it scans
\* (FightSpace counts as blank)
count_blank(grid) == Cardinality(CellsOfKind(grid, "Blank") \cup CellsOfKind(grid, "Fight"))
count_food(grid) == Cardinality(CellsOfKind(grid, "Food"))
count_walls(grid) == Cardinality(CellsOfKind(grid, "Wall"))
count_creatures(grid) == Cardinality(CellsOfKind(grid, "Creature"))

\* the two steps of get_next_position_for_creature along one axis
dec_wrap(v, size) == IF v = 0 THEN size - 1 ELSE v - 1
inc_wrap(v, size) == (v + 1) % size

\* get_next_position_for_creature with every orientation handled as Up
get_next_position_absolute(action, position, orientation) ==
    CASE action = "MoveForwards" ->
           [position EXCEPT !.y = dec_wrap(position.y, params.env_y_size)]
      [] action = "MoveLeft" ->
           [position EXCEPT !.x = dec_wrap(position.x, params.env_x_size)]
      [] action = "MoveBackwards" ->
           [position EXCEPT !.y = inc_wrap(position.y, params.env_y_size)]
      [] action = "MoveRight" ->
           [position EXCEPT !.x = inc_wrap(position.x, params.env_x_size)]
      [] OTHER -> position

\* EnvironmentV1::get_next_position_for_creature
get_next_position_for_creature(action, position, orientation) ==
    LET ydec == [position EXCEPT !.y = dec_wrap(position.y, params.env_y_size)]
        yinc == [position EXCEPT !.y = inc_wrap(position.y, params.env_y_size)]
        xdec == [position EXCEPT !.x = dec_wrap(position.x, params.env_x_size)]
        xinc == [position EXCEPT !.x = inc_wrap(position.x, params.env_x_size)]
    IN  CASE orientation = "Up" ->
               (CASE action = "MoveForwards" -> ydec
                  [] action = "MoveLeft" -> xdec
                  [] action = "MoveBackwards" -> yinc
                  [] action = "MoveRight" -> xinc
                  [] OTHER -> position)
          [] orientation = "Down" ->
               (CASE action = "MoveBackwards" -> ydec
                  [] action = "MoveRight" -> xdec
                  [] action = "MoveForwards" -> yinc
                  [] action = "MoveLeft" -> xinc
                  [] OTHER -> position)
          [] orientation = "Left" ->
               (CASE action = "MoveRight" -> ydec
                  [] action = "MoveForwards" -> xdec
                  [] action = "MoveLeft" -> yinc
                  [] action = "MoveBackwards" -> xinc
                  [] OTHER -> position)
          [] orientation = "Right" ->
               (CASE action = "MoveLeft" -> ydec
                  [] action = "MoveBackwards" -> xdec
                  [] action = "MoveRight" -> yinc
                  [] action = "MoveForwards" -> xinc
                  [] OTHER -> position)

\* the colour update_creature_vision reports for a cell in view: the fixed
\* colour of food and walls, the colour of the listed creature (the unwrap
\* of a missing index is vision_lookup_fails)
seen_color(list, s) ==
    CASE s.t = "Food" -> FOOD_SPACE_COLOR
      [] s.t = "Wall" -> WALL_SPACE_COLOR
      [] OTHER ->
           LET target_cidx == get_creature_idx_from_id(list, s.v) IN
           IF target_cidx = 0 THEN <<0, 0, 0>> ELSE list[target_cidx].color

\* the scan loop of update_creature_vision for one creature: the reading the
\* loop leaves, step being the number of cells already looked at
RECURSIVE scan_vision(_, _, _, _, _, _)
scan_vision(grid, list, c, xpos, ypos, step) ==
    IF step >= MAX_CREATURE_VIEW_DISTANCE THEN NoVision
    ELSE IF (c.orientation = "Up" /\ ypos = 0) \/ (c.orientation = "Left" /\ xpos = 0)
    THEN NoVision
    ELSE
        LET nx == CASE c.orientation = "Right" -> xpos + 1
                    [] c.orientation = "Left" -> xpos - 1
                    [] OTHER -> xpos
            ny == CASE c.orientation = "Down" -> ypos + 1
                    [] c.orientation = "Up" -> ypos - 1
                    [] OTHER -> ypos
        IN  IF nx >= params.env_x_size \/ ny >= params.env_y_size THEN NoVision
            ELSE
                LET distance == Abs(nx - c.position.x) + Abs(ny - c.position.y)
                    s == grid[nx][ny]
                IN  IF s.t \in {"Blank", "Fight"}
                    THEN scan_vision(grid, list, c, nx, ny, step + 1)
                    ELSE [obj_in_view |-> TRUE, dist |-> distance,
                          color |-> seen_color(list, s), space_type |-> s]

\* the reading update_creature_vision stores for creature c
vision_of(grid, list, c) == scan_vision(grid, list, c, c.position.x, c.position.y, 0)

\* update_creature_vision unwraps the index of every creature it sees
vision_lookup_fails(grid, list) ==
    \E i \in 1..Len(list) :
        LET v == vision_of(grid, list, list[i]) IN
        /\ v.obj_in_view
        /\ v.space_type.t = "Creature"
        /\ get_creature_idx_from_id(list, v.space_type.v) = 0

\* update_creature_vision that leaves the readings as they are
update_creature_vision_stale(grid, list) == list

\* EnvironmentV1::update_creature_vision
update_creature_vision(grid, list) ==
    [i \in 1..Len(list) |-> [list[i] EXCEPT !.vision_state = vision_of(grid, list, list[i])]]

-----------------------------------------------------------------------------
(* Resolution of one creature's action (the body of the creature loop of   *)
(* advance_step)                                                           *)

\* the Kill arm without the test of the distance
resolve_kill_any_distance(list, i, energy_per_kill) ==
    LET v == list[i].vision_state IN
    IF v.obj_in_view /\ v.space_type.t = "Creature"
    THEN LET victim_idx == get_creature_idx_from_id(list, v.space_type.v) IN
         IF victim_idx = 0 THEN [ok |-> FALSE, creatures |-> list]
         ELSE IF ~is_dead(list[victim_idx])
         THEN LET killed == [list EXCEPT ![victim_idx] = kill(@)] IN
              [ok |-> TRUE,
               creatures |-> [killed EXCEPT ![i] = eat_food(@, energy_per_kill)]]
         ELSE [ok |-> TRUE, creatures |-> list]
    ELSE [ok |-> TRUE, creatures |-> list]

\* the Kill arm: the victim is the creature of the attacker's vision reading
\* when that reading is a creature at distance 1; ok is FALSE when the
\* unwrap of the victim's index fails
resolve_kill(list, i, energy_per_kill) ==
    LET v == list[i].vision_state IN
    IF v.obj_in_view /\ v.dist = 1 /\ v.space_type.t = "Creature"
    THEN LET victim_idx == get_creature_idx_from_id(list, v.space_type.v) IN
         IF victim_idx = 0 THEN [ok |-> FALSE, creatures |-> list]
         ELSE IF ~is_dead(list[victim_idx])
         THEN LET killed == [list EXCEPT ![victim_idx] = kill(@)] IN
              [ok |-> TRUE,
               creatures |-> [killed EXCEPT ![i] = eat_food(@, energy_per_kill)]]
         ELSE [ok |-> TRUE, creatures |-> list]
    ELSE [ok |-> TRUE, creatures |-> list]

\* resolve_move without the FightSpace arm: the creature stays put
resolve_move_blocked_by_fight(list, grid, i, next_position, energy_per_food_piece) ==
    IF next_position # list[i].position
    THEN LET pos == list[i].position
             target == CellAt(grid, next_position)
             moved == SetCell(SetCell(grid, pos, BlankSpace), next_position,
                              CreatureSpace(list[i].id))
         IN  CASE target.t = "Blank" ->
                    [creatures |-> [list EXCEPT ![i].position = next_position],
                     positions |-> moved]
               [] target.t = "Food" ->
                    [creatures |-> [list EXCEPT
                                      ![i] = [eat_food(@, energy_per_food_piece)
                                                EXCEPT !.position = next_position]],
                     positions |-> moved]
               [] OTHER -> [creatures |-> list, positions |-> grid]
    ELSE [creatures |-> list, positions |-> grid]

\* resolve_move without the BlankSpace written to the cell that is left
resolve_move_leaves_trail(list, grid, i, next_position, energy_per_food_piece) ==
    IF next_position # list[i].position
    THEN LET target == CellAt(grid, next_position)
             moved == SetCell(grid, next_position, CreatureSpace(list[i].id))
         IN  CASE target.t \in {"Blank", "Fight"} ->
                    [creatures |-> [list EXCEPT ![i].position = next_position],
                     positions |-> moved]
               [] target.t = "Food" ->
                    [creatures |-> [list EXCEPT
                                      ![i] = [eat_food(@, energy_per_food_piece)
                                                EXCEPT !.position = next_position]],
                     positions |-> moved]
               [] OTHER -> [creatures |-> list, positions |-> grid]
    ELSE [creatures |-> list, positions |-> grid]

\* resolve_move with a wall taken for a blank cell
resolve_move_through_walls(list, grid, i, next_position, energy_per_food_piece) ==
    IF next_position # list[i].position
    THEN LET pos == list[i].position
             target == CellAt(grid, next_position)
             moved == SetCell(SetCell(grid, pos, BlankSpace), next_position,
                              CreatureSpace(list[i].id))
         IN  CASE target.t \in {"Blank", "Fight", "Wall"} ->
                    [creatures |-> [list EXCEPT ![i].position = next_position],
                     positions |-> moved]
               [] target.t = "Food" ->
                    [creatures |-> [list EXCEPT
                                      ![i] = [eat_food(@, energy_per_food_piece)
                                                EXCEPT !.position = next_position]],
                     positions |-> moved]
               [] OTHER -> [creatures |-> list, positions |-> grid]
    ELSE [creatures |-> list, positions |-> grid]

\* the collision match: what a creature that wants to be at next_position
\* does to the list and the grid
resolve_move(list, grid, i, next_position, energy_per_food_piece) ==
    IF next_position # list[i].position
    THEN LET pos == list[i].position
             target == CellAt(grid, next_position)
             moved == SetCell(SetCell(grid, pos, BlankSpace), next_position,
                              CreatureSpace(list[i].id))
         IN  CASE target.t \in {"Blank", "Fight"} ->
                    [creatures |-> [list EXCEPT ![i].position = next_position],
                     positions |-> moved]
               [] target.t = "Food" ->
                    [creatures |-> [list EXCEPT
                                      ![i] = [eat_food(@, energy_per_food_piece)
                                                EXCEPT !.position = next_position]],
                     positions |-> moved]
               [] OTHER -> [creatures |-> list, positions |-> grid]
    ELSE [creatures |-> list, positions |-> grid]

\* the Reproduce arm with the running total as the id of every child
spawn_offspring_one_id(parent, total, deviations) ==
    [j \in 1..Len(deviations) |-> new_offspring(total, parent, deviations[j])]

\* the colour deviations explored for an offspring: none, and one that
\* darkens green and blue; a run out of inputs draws no deviation
NoDeviation == <<0, 0, 0>>
ColorDeviations == {NoDeviation, <<0, MIN_COLOR_DEVIATION, MIN_COLOR_DEVIATION>>}

\* the Reproduce arm: one child of the parent for each drawn deviation,
\* with the ids from the running total on
spawn_offspring(parent, total, deviations) ==
    [j \in 1..Len(deviations) |-> new_offspring(total + j - 1, parent, deviations[j])]

-----------------------------------------------------------------------------
(* remove_dead_creatures *)

\* the first loop without the write to the cell of a dead creature
clear_dead_cells_none(list, grid, i) == grid

\* the first loop: the cell of every dead creature, in list order
RECURSIVE clear_dead_cells(_, _, _)
clear_dead_cells(list, grid, i) ==
    IF i > Len(list) THEN grid
    ELSE IF is_dead(list[i])
    THEN clear_dead_cells(list,
             SetCell(grid, list[i].position,
                     IF list[i].killed THEN FightSpace(FIGHT_SPACE_PERSISTENCE_STEPS)
                                       ELSE BlankSpace),
             i + 1)
    ELSE clear_dead_cells(list, grid, i + 1)

\* to_remove with the ids of the killed creatures only
dead_ids_killed_only(list) ==
    LET dead == SelectSeq(list, LAMBDA c : is_dead(c) /\ c.killed)
    IN  [i \in 1..Len(dead) |-> dead[i].id]

\* to_remove: the ids of the dead creatures, in list order
dead_ids(list) ==
    LET dead == SelectSeq(list, is_dead) IN [i \in 1..Len(dead) |-> dead[i].id]

\* Vec::remove of the creature listed after the first one holding the id
remove_first_with_id_off_by_one(list, id) ==
    LET x == get_creature_idx_from_id(list, id) IN
    IF x = 0 THEN list
    ELSE SubSeq(list, 1, x) \o SubSeq(list, x + 2, Len(list))

\* Vec::remove of the first creature holding the id
remove_first_with_id(list, id) ==
    LET x == get_creature_idx_from_id(list, id) IN
    IF x = 0 THEN list
    ELSE SubSeq(list, 1, x - 1) \o SubSeq(list, x + 1, Len(list))

\* the second loop: every id of to_remove is removed once
RECURSIVE remove_ids(_, _)
remove_ids(list, ids) ==
    IF ids = <<>> THEN list
    ELSE remove_ids(remove_first_with_id(list, Head(ids)), Tail(ids))

\* how many creatures the second loop removes (each decrements num_creatures)
removed_count(list) == Len(list) - Len(remove_ids(list, dead_ids(list)))

-----------------------------------------------------------------------------
(* Random searches for a blank cell *)

clamp(v, size) == IF v < 0 THEN 0 ELSE IF v >= size THEN size - 1 ELSE v

\* the window of a search that draws one cell further on each side
spawn_window_one_further(target_pos) ==
    {Pos(clamp(target_pos.x + dx, params.env_x_size),
         clamp(target_pos.y + dy, params.env_y_size)) :
        dx \in (-(MAX_OFFSPRING_SPAWN_DIST + 1))..MAX_OFFSPRING_SPAWN_DIST,
        dy \in (-(MAX_OFFSPRING_SPAWN_DIST + 1))..MAX_OFFSPRING_SPAWN_DIST}

\* the cells get_blank_space_at_point can draw around target_pos
\* (gen_range(-MAX_OFFSPRING_SPAWN_DIST..MAX_OFFSPRING_SPAWN_DIST), clamped)
spawn_window(target_pos) ==
    {Pos(clamp(target_pos.x + dx, params.env_x_size),
         clamp(target_pos.y + dy, params.env_y_size)) :
        dx \in (-MAX_OFFSPRING_SPAWN_DIST)..(MAX_OFFSPRING_SPAWN_DIST - 1),
        dy \in (-MAX_OFFSPRING_SPAWN_DIST)..(MAX_OFFSPRING_SPAWN_DIST - 1)}

\* the search accepting every cell of the window that is not a wall
blank_space_at_point_not_wall(grid, target_pos) ==
    {p \in spawn_window(target_pos) : CellAt(grid, p).t # "Wall"}

\* get_blank_space_at_point: Some(cell) for a blank cell of the window;
\* None needs more than MAX_OFFSPRING_SPAWN_DIST^2 draws of a cell that is
\* not blank
blank_space_at_point_some(grid, target_pos) ==
    {p \in spawn_window(target_pos) : CellAt(grid, p).t = "Blank"}
blank_space_at_point_none(grid, target_pos) ==
    \E p \in spawn_window(target_pos) : CellAt(grid, p).t # "Blank"

\* get_rand_blank_space taking a wall for a blank cell
rand_blank_space_found_or_wall(grid) ==
    CellsOfKind(grid, "Blank") \cup CellsOfKind(grid, "Wall")

\* get_rand_blank_space that gives up without a panic and returns the cell
\* (found_x, found_y) it started with
rand_blank_space_found_or_origin(grid) ==
    IF CellsOfKind(grid, "Blank") = {} THEN {Pos(0, 0)} ELSE CellsOfKind(grid, "Blank")

\* get_rand_blank_space: a blank cell, or the panic of the loop watchdog
\* after more than WATCHDOG_ATTEMPTS draws of a cell that is not blank
rand_blank_space_found(grid) == CellsOfKind(grid, "Blank")
rand_blank_space_panics(grid) == \E p \in GridCells(grid) : CellAt(grid, p).t # "Blank"

\* add_wall_space without the test for a creature
add_wall_space_over_creature(grid, position) == SetCell(grid, position, WallSpace)

\* EnvironmentV1::add_food_space / add_wall_space / add_blank_space
add_food_space(grid, position) ==
    IF CellAt(grid, position).t = "Creature" THEN grid
    ELSE SetCell(grid, position, FoodSpace)
add_wall_space(grid, position) ==
    IF CellAt(grid, position).t = "Creature" THEN grid
    ELSE SetCell(grid, position, WallSpace)
add_blank_space(grid, position) ==
    IF CellAt(grid, position).t = "Creature" THEN grid
    ELSE SetCell(grid, position, BlankSpace)

\* the number of pieces add_new_food_pieces can decide to add: with an
\* average below 1 one piece when the draw of [0, 1) is below the average,
\* otherwise round(x) for a draw x of [0, 2 * average), whose largest value
\* is ceil(2 * average + 1/2) - 1; the average is the fraction
\* avg_new_food_num / avg_new_food_den
new_food_counts(prm) ==
    IF prm.avg_new_food_num < prm.avg_new_food_den
    THEN {IF d < prm.avg_new_food_num THEN 1 ELSE 0 : d \in 0..(prm.avg_new_food_den - 1)}
    ELSE 0..(((4 * prm.avg_new_food_num + 3 * prm.avg_new_food_den - 1)
                \div (2 * prm.avg_new_food_den)) - 1)

\* the grids n successive add_food_space(get_rand_blank_space()) calls can
\* leave: each piece lands on a cell that is blank when it is drawn
RECURSIVE food_grids(_, _)
food_grids(grid, n) ==
    IF n = 0 THEN {grid}
    ELSE UNION {food_grids(add_food_space(grid, p), n - 1) : p \in rand_blank_space_found(grid)}

\* whether one of the n searches can end in the watchdog panic
RECURSIVE food_panics(_, _)
food_panics(grid, n) ==
    IF n = 0 THEN FALSE
    ELSE \/ rand_blank_space_panics(grid)
         \/ \E p \in rand_blank_space_found(grid) : food_panics(add_food_space(grid, p), n - 1)

-----------------------------------------------------------------------------
(* Environments the runs start from *)

\* EnvironmentParams: the default energies of EnvironmentParams::new on a
\* grid of EnvX x EnvY cells with two creatures, one food and one wall; the
\* two f32 fields are fractions (mutation_prob_num / mutation_prob_den,
\* avg_new_food_num / avg_new_food_den)
DefaultEnvParams ==
    [env_x_size |-> EnvX, env_y_size |-> EnvY,
     num_start_creatures |-> 2, num_start_food |-> 1, num_start_walls |-> 1,
     energy_per_food_piece |-> DEFAULT_ENERGY_PER_FOOD_PIECE,
     energy_per_kill |-> DEFAULT_ENERGY_PER_KILL,
     max_offspring_per_reproduce |-> DEFAULT_OFFSPRING_PER_REPRODUCE,
     mutation_prob_num |-> 2, mutation_prob_den |-> 100,
     avg_new_food_num |-> 1, avg_new_food_den |-> 1,
     creature_repro_energy_cost |-> DEFAULT_REPRODUCE_ENERGY_COST,
     creature_starting_energy |-> DEFAULT_ENERGY_LEVEL]

\* parameters a front end can set: food worth a full tank, one child per
\* reproduction, new food on every second step
RichFoodEnvParams ==
    [DefaultEnvParams EXCEPT !.energy_per_food_piece = MAX_POSSIBLE_ENERGY,
                             !.max_offspring_per_reproduce = 1,
                             !.avg_new_food_num = 1, !.avg_new_food_den = 2]

\* where get_rand_blank_space put the two creatures, the food and the wall
Layouts ==
    {[a |-> Pos(0, 0), b |-> Pos(1, 0), food |-> Pos(2, 0), wall |-> Pos(0, 1)],
     [a |-> Pos(0, 0), b |-> Pos(2, 0), food |-> Pos(1, 0), wall |-> Pos(0, 1)],
     [a |-> Pos(0, 0), b |-> Pos(2, 0), food |-> Pos(1, 1), wall |-> Pos(0, 1)]}

\* the orientations drawn for the first creature; the second one faces left
FirstOrientations == {"Up", "Right", "Down"}

EmptyGrid == [x \in XS |-> [y \in YS |-> BlankSpace]]

LayoutGrid(l, ida, idb) ==
    SetCell(SetCell(SetCell(SetCell(EmptyGrid, l.food, FoodSpace), l.a, CreatureSpace(ida)),
                    l.b, CreatureSpace(idb)), l.wall, WallSpace)

\* no call has been made, or the last one was a direct call of advance_step
NoCall == [name |-> "none"]

\* no creature turn has been taken in the running step
NoTurn == [action |-> "None", evaluated |-> FALSE, before |-> <<>>]

\* the fields of the environment that a creature turn is compared with
Snapshot ==
    [creatures |-> creatures, positions |-> positions,
     temp_new_creatures |-> temp_new_creatures,
     num_total_creatures |-> num_total_creatures, num_food |-> num_food,
     num_creatures |-> num_creatures, num_blank |-> num_blank,
     num_walls |-> num_walls, num_kills |-> num_kills,
     num_natural_deaths |-> num_natural_deaths, time_step |-> time_step]

\* new_rand: food, then the creatures 0 and 1, then the wall, each on a cell
\* that is blank when it is drawn; the counters are those the constructor
\* sets (add_creature counts every creature a second time)
InitFresh ==
    \E l \in Layouts, oa \in FirstOrientations :
        /\ params = DefaultEnvParams
        /\ creatures = <<NewCreature(0, l.a, oa), NewCreature(1, l.b, "Left")>>
        /\ positions = LayoutGrid(l, 0, 1)
        /\ time_step = 0
        /\ num_food = 0 /\ num_creatures = 0 /\ num_walls = 0
        /\ num_blank = EnvX * EnvY
        /\ num_total_creatures = 2 * DefaultEnvParams.num_start_creatures
        /\ num_kills = 0 /\ num_natural_deaths = 0
        /\ created_ids = <<0, 1>> /\ removed_ids = {}
        /\ last_call = "new_rand"

\* age and energy of a creature that reached its energy and then stayed
Profiles ==
    {[age |-> 5, energy |-> 40], [age |-> 60, energy |-> 1],
     [age |-> 198, energy |-> 40]}

\* an environment met later in a run: creature 0 of the start population
\* and creature 4, the child creature 1 had before it starved; the last
\* step was a quiet one (every creature stayed, no food was added), so the
\* counters and the vision readings are those of this grid
InitLater ==
    \E l \in Layouts, prof \in Profiles, prm \in {DefaultEnvParams, RichFoodEnvParams},
       oa \in FirstOrientations :
        LET grid == LayoutGrid(l, 0, 4)
            a == [NewCreature(0, l.a, oa) EXCEPT !.age = prof.age, !.energy = prof.energy]
            b == [NewCreature(4, l.b, "Left") EXCEPT !.age = 2]
        IN  /\ prm = RichFoodEnvParams => prof.energy = DEFAULT_ENERGY_LEVEL /\ prof.age = 5
            /\ params = prm
            /\ creatures = update_creature_vision(grid, <<a, b>>)
            /\ positions = grid
            /\ time_step = prof.age
            /\ num_food = count_food(grid) /\ num_creatures = count_creatures(grid)
            /\ num_walls = count_walls(grid) /\ num_blank = count_blank(grid)
            /\ num_total_creatures = 5
            /\ num_kills = 0 /\ num_natural_deaths = 1
            /\ created_ids = <<0, 1, 4>> /\ removed_ids = {1}
            /\ last_call = "advance_step"

\* an environment met late in a run: creature 0 is the only one left and is
\* about to starve; creature 4 was killed some twenty steps ago where a
\* FightSpace is about to run out
InitAfterFight ==
    \E l \in Layouts, oa \in FirstOrientations, ttl \in {0, 1} :
        LET grid == SetCell(LayoutGrid(l, 0, 4), l.b, FightSpace(ttl))
            a == [NewCreature(0, l.a, oa) EXCEPT !.age = 60, !.energy = 1]
        IN  /\ params = DefaultEnvParams
            /\ creatures = update_creature_vision(grid, <<a>>)
            /\ positions = grid
            /\ time_step = 60
            /\ num_food = count_food(grid) /\ num_creatures = count_creatures(grid)
            /\ num_walls = count_walls(grid) /\ num_blank = count_blank(grid)
            /\ num_total_creatures = 5
            /\ num_kills = 1 /\ num_natural_deaths = 1
            /\ created_ids = <<0, 1, 4>> /\ removed_ids = {1, 4}
            /\ last_call = "advance_step"

InitEnvCommon ==
    /\ pc = "idle" /\ creature_idx = 0 /\ temp_new_creatures = <<>>
    /\ turn = NoTurn /\ last_removed = <<>>
    /\ ticks = 0 /\ inputs = 0 /\ food_added = 0
    /\ call = NoCall

\* the environment model leaves the brain out: its answer is an input
InitBrainIdle == brain = NoBrain /\ child = NoBrain /\ next_action = "None"

Init == (InitFresh \/ InitLater \/ InitAfterFight) /\ InitEnvCommon /\ InitBrainIdle

-----------------------------------------------------------------------------
(* advance_step *)

\* the program stopped in a panic: nothing is enabled afterwards
Panic ==
    /\ pc' = "panic"
    /\ UNCHANGED <<params, creatures, positions, time_step, num_food, num_creatures,
                   num_blank, num_walls, num_total_creatures, num_kills,
                   num_natural_deaths, creature_idx, temp_new_creatures, turn,
                   created_ids, removed_ids, last_removed, ticks, inputs, food_added,
                   last_call, call>>

\* run_n_steps is running: the advance_step calls are those of its loop
in_run_n_steps == call.name = "run_n_steps" /\ call.result = "running"

\* the head of advance_step: update_space_counters and the empty pending list
\* (a step called directly is then the last call made)
StartStep ==
    /\ pc = "idle"
    /\ ticks < MaxTicks
    /\ positions' = [x \in XS |-> [y \in YS |-> decay_fight_space(positions[x][y])]]
    /\ num_blank' = count_blank(positions)
    /\ num_creatures' = count_creatures(positions)
    /\ num_walls' = count_walls(positions)
    /\ num_food' = count_food(positions)
    /\ temp_new_creatures' = <<>>
    /\ creature_idx' = 1
    /\ turn' = [NoTurn EXCEPT !.before = Snapshot]
    /\ pc' = "turn"
    /\ ticks' = ticks + 1
    /\ last_removed' = <<>>
    /\ call' = IF in_run_n_steps THEN call ELSE NoCall
    /\ UNCHANGED <<params, creatures, time_step, num_total_creatures, num_kills,
                   num_natural_deaths, created_ids, removed_ids, inputs, food_added,
                   last_call>>
    /\ UNCHANGED brainVars

\* what the brain of a creature can answer: any action while the run has
\* inputs left, Stay afterwards
BrainChoices == IF inputs < MaxInputs THEN CreatureActions ELSE {"Stay"}

\* the colour deviations an offspring can draw: any while the run has
\* inputs left, none afterwards
ColorChoices == IF inputs < MaxInputs THEN ColorDeviations ELSE {NoDeviation}

\* one pass of the creature loop: sense_surroundings, perform_next_action
\* and the resolution of the returned action against the grid
CreatureTurn ==
    /\ pc = "turn"
    /\ creature_idx <= Len(creatures)
    /\ \E brain_action \in BrainChoices :
        LET i == creature_idx
            r == perform_next_action(creatures[i], brain_action)
            acted == [creatures EXCEPT ![i] = r.creature]
            action == r.action
            skip == is_dead(r.creature)
        IN  /\ turn' = [action |-> action, evaluated |-> r.evaluated,
                         before |-> Snapshot]
            /\ inputs' = IF r.evaluated /\ brain_action # "Stay" THEN inputs + 1 ELSE inputs
            /\ UNCHANGED <<params, time_step, num_food, num_creatures, num_blank,
                           num_walls, num_kills, num_natural_deaths, removed_ids,
                           last_removed, ticks, food_added, last_call, call>>
            /\ UNCHANGED brainVars
            /\ IF r.underflow THEN
                   /\ pc' = "panic"
                   /\ UNCHANGED <<creatures, positions, num_total_creatures,
                                  creature_idx, temp_new_creatures, created_ids>>
               ELSE IF skip THEN
                   /\ creatures' = acted
                   /\ creature_idx' = i + 1
                   /\ UNCHANGED <<positions, num_total_creatures, temp_new_creatures,
                                  created_ids, pc>>
               ELSE IF action = "Kill" THEN
                   LET k == resolve_kill(acted, i, params.energy_per_kill) IN
                   /\ creatures' = k.creatures
                   /\ pc' = IF k.ok THEN pc ELSE "panic"
                   /\ creature_idx' = i + 1
                   /\ UNCHANGED <<positions, num_total_creatures, temp_new_creatures,
                                  created_ids>>
               ELSE IF action \in MoveActions THEN
                   LET next_position ==
                           get_next_position_for_creature(action, acted[i].position,
                                                          acted[i].orientation)
                       m == resolve_move(acted, positions, i, next_position,
                                         params.energy_per_food_piece)
                   IN  /\ creatures' = m.creatures
                       /\ positions' = m.positions
                       /\ creature_idx' = i + 1
                       /\ UNCHANGED <<num_total_creatures, temp_new_creatures,
                                      created_ids, pc>>
               ELSE IF action = "Reproduce" THEN
                   IF params.max_offspring_per_reproduce < 1 THEN
                       /\ pc' = "panic"
                       /\ UNCHANGED <<creatures, positions, num_total_creatures,
                                      creature_idx, temp_new_creatures, created_ids>>
                   ELSE
                       \E num_offspring \in 1..params.max_offspring_per_reproduce :
                       \E deviations \in [1..num_offspring -> ColorChoices] :
                           LET born == spawn_offspring(acted[i], num_total_creatures,
                                                       deviations)
                           IN  /\ creatures' = acted
                               /\ temp_new_creatures' = temp_new_creatures \o born
                               /\ num_total_creatures' = num_total_creatures + num_offspring
                               /\ created_ids' = created_ids \o
                                      [j \in 1..num_offspring |-> born[j].id]
                               /\ creature_idx' = i + 1
                               /\ UNCHANGED <<positions, pc>>
               ELSE
                   /\ creatures' = acted
                   /\ creature_idx' = i + 1
                   /\ UNCHANGED <<positions, num_total_creatures, temp_new_creatures,
                                  created_ids, pc>>

\* after the loop: remove_dead_creatures
RemoveDead ==
    /\ pc = "turn"
    /\ creature_idx > Len(creatures)
    /\ IF removed_count(creatures) > num_creatures
       THEN Panic
       ELSE /\ positions' = clear_dead_cells(creatures, positions, 1)
            /\ num_kills' = num_kills + Len(SelectSeq(creatures, LAMBDA c : is_dead(c) /\ c.killed))
            /\ num_natural_deaths' = num_natural_deaths
                   + Len(SelectSeq(creatures, LAMBDA c : is_dead(c) /\ ~c.killed))
            /\ creatures' = remove_ids(creatures, dead_ids(creatures))
            /\ num_creatures' = num_creatures - removed_count(creatures)
            /\ removed_ids' = removed_ids \cup
                   {creatures[i].id : i \in {j \in 1..Len(creatures) : is_dead(creatures[j])}}
            /\ last_removed' = SelectSeq(creatures, is_dead)
            /\ pc' = "spawn"
            /\ turn' = NoTurn
            /\ UNCHANGED <<params, time_step, num_food, num_blank, num_walls,
                           num_total_creatures, creature_idx, temp_new_creatures,
                           created_ids, ticks, inputs, food_added, last_call, call>>
    /\ UNCHANGED brainVars

\* one pass of the loop over the pending offspring
PlaceOffspring ==
    /\ pc = "spawn"
    /\ temp_new_creatures # <<>>
    /\ LET new_creature == Head(temp_new_creatures) IN
       \/ \E new_pos \in blank_space_at_point_some(positions, new_creature.position) :
            /\ positions' = SetCell(positions, new_pos, CreatureSpace(new_creature.id))
            /\ creatures' = Append(creatures, [new_creature EXCEPT !.position = new_pos])
       \/ /\ blank_space_at_point_none(positions, new_creature.position)
          /\ UNCHANGED <<positions, creatures>>
    /\ temp_new_creatures' = Tail(temp_new_creatures)
    /\ UNCHANGED <<params, time_step, num_food, num_creatures, num_blank, num_walls,
                   num_total_creatures, num_kills, num_natural_deaths, pc,
                   creature_idx, turn, created_ids, removed_ids, last_removed, ticks,
                   inputs, food_added, last_call, call>>
    /\ UNCHANGED brainVars

\* the numbers of pieces add_new_food_pieces can add in this run
FoodCounts == {n \in new_food_counts(params) : n = 0 \/ food_added + n <= MaxNewFood}

\* the tail of advance_step: add_new_food_pieces, update_creature_vision and
\* the time step counter; the step returns to its caller
FinishStep ==
    /\ pc = "spawn"
    /\ temp_new_creatures = <<>>
    /\ \E n \in FoodCounts :
        \/ \E grid \in food_grids(positions, n) :
             IF vision_lookup_fails(grid, creatures)
             THEN Panic
             ELSE /\ positions' = grid
                  /\ creatures' = update_creature_vision(grid, creatures)
                  /\ time_step' = time_step + 1
                  /\ food_added' = food_added + n
                  /\ creature_idx' = 0
                  /\ pc' = IF in_run_n_steps THEN "check" ELSE "idle"
                  /\ last_call' = "advance_step"
                  /\ UNCHANGED <<params, num_food, num_creatures, num_blank, num_walls,
                                 num_total_creatures, num_kills, num_natural_deaths,
                                 temp_new_creatures, turn, created_ids, removed_ids,
                                 last_removed, ticks, inputs, call>>
        \/ /\ food_panics(positions, n)
           /\ Panic
    /\ UNCHANGED brainVars

-----------------------------------------------------------------------------
(* The single-cell mutators a front end calls between two steps (a run   *)
(* ends with its last advance_step)                                        *)

AddFoodSpace ==
    /\ pc = "idle" /\ ticks < MaxTicks /\ inputs < MaxInputs
    /\ \E p \in Cells :
          /\ positions' = add_food_space(positions, p)
          /\ call' = [name |-> "add_food_space", position |-> p]
    /\ inputs' = inputs + 1
    /\ last_call' = "add_food_space"
    /\ UNCHANGED <<params, creatures, time_step, num_food, num_creatures, num_blank,
                   num_walls, num_total_creatures, num_kills, num_natural_deaths, pc,
                   creature_idx, temp_new_creatures, turn, created_ids, removed_ids,
                   last_removed, ticks, food_added>>
    /\ UNCHANGED brainVars

AddWallSpace ==
    /\ pc = "idle" /\ ticks < MaxTicks /\ inputs < MaxInputs
    /\ \E p \in Cells :
          /\ positions' = add_wall_space(positions, p)
          /\ call' = [name |-> "add_wall_space", position |-> p]
    /\ inputs' = inputs + 1
    /\ last_call' = "add_wall_space"
    /\ UNCHANGED <<params, creatures, time_step, num_food, num_creatures, num_blank,
                   num_walls, num_total_creatures, num_kills, num_natural_deaths, pc,
                   creature_idx, temp_new_creatures, turn, created_ids, removed_ids,
                   last_removed, ticks, food_added>>
    /\ UNCHANGED brainVars

AddBlankSpace ==
    /\ pc = "idle" /\ ticks < MaxTicks /\ inputs < MaxInputs
    /\ \E p \in Cells :
          /\ positions' = add_blank_space(positions, p)
          /\ call' = [name |-> "add_blank_space", position |-> p]
    /\ inputs' = inputs + 1
    /\ last_call' = "add_blank_space"
    /\ UNCHANGED <<params, creatures, time_step, num_food, num_creatures, num_blank,
                   num_walls, num_total_creatures, num_kills, num_natural_deaths, pc,
                   creature_idx, temp_new_creatures, turn, created_ids, removed_ids,
                   last_removed, ticks, food_added>>
    /\ UNCHANGED brainVars

Next ==
    \/ StartStep
    \/ CreatureTurn
    \/ RemoveDead
    \/ PlaceOffspring
    \/ FinishStep
    \/ AddFoodSpace
    \/ AddWallSpace
    \/ AddBlankSpace

Spec == Init /\ [][Next]_vars

-----------------------------------------------------------------------------
(* Steps of an environment in which two creatures face a third one         *)

\* the default parameters, and a kill and a food piece worth a full tank
KillEnvParams ==
    {[DefaultEnvParams EXCEPT !.num_start_creatures = 3, !.energy_per_kill = e[1],
                              !.energy_per_food_piece = e[2]]
       : e \in {<<DEFAULT_ENERGY_PER_KILL, DEFAULT_ENERGY_PER_FOOD_PIECE>>,
                <<MAX_POSSIBLE_ENERGY, MAX_POSSIBLE_ENERGY>>}}

\* an environment met after five quiet steps: the creature on the left
\* (creature 0, which may be down to its last unit of energy) and the one
\* on the right both face the one between them, which is creature 1 or
\* creature 2 and so has its turn before or after the one on the right
InitKill ==
    \E prm \in KillEnvParams, energy \in {DEFAULT_ENERGY_LEVEL, 1},
       facing \in {"Up", "Left"}, middle \in {1, 2} :
        LET right == 3 - middle
            grid == SetCell(SetCell(SetCell(SetCell(EmptyGrid,
                        Pos(0, 0), CreatureSpace(0)), Pos(1, 0), CreatureSpace(middle)),
                        Pos(2, 0), CreatureSpace(right)), Pos(0, 1), WallSpace)
            placed(id) ==
                IF id = middle THEN NewCreature(id, Pos(1, 0), facing)
                ELSE NewCreature(id, Pos(2, 0), "Left")
        IN  /\ params = prm
            /\ creatures = update_creature_vision(grid,
                   <<[NewCreature(0, Pos(0, 0), "Right")
                        EXCEPT !.age = 5, !.energy = energy],
                     [placed(1) EXCEPT !.age = 5], [placed(2) EXCEPT !.age = 5]>>)
            /\ positions = grid
            /\ time_step = 5
            /\ num_food = count_food(grid) /\ num_creatures = count_creatures(grid)
            /\ num_walls = count_walls(grid) /\ num_blank = count_blank(grid)
            /\ num_total_creatures = 2 * prm.num_start_creatures
            /\ num_kills = 0 /\ num_natural_deaths = 0
            /\ created_ids = <<0, 1, 2>> /\ removed_ids = {}
            /\ last_call = "advance_step"
            /\ InitEnvCommon /\ InitBrainIdle

NextKill ==
    \/ StartStep
    \/ CreatureTurn
    \/ RemoveDead
    \/ PlaceOffspring
    \/ FinishStep

SpecKill == InitKill /\ [][NextKill]_vars

-----------------------------------------------------------------------------
(* run_n_steps: the loop that calls advance_step and tests the population  *)
(* after every step                                                        *)

\* EnvironmentV1 as one record: the environment a call met
Env ==
    [params |-> params, creatures |-> creatures, positions |-> positions,
     time_step |-> time_step, num_food |-> num_food,
     num_creatures |-> num_creatures, num_blank |-> num_blank,
     num_walls |-> num_walls, num_total_creatures |-> num_total_creatures,
     num_kills |-> num_kills, num_natural_deaths |-> num_natural_deaths]

\* the test of the loop with one creature taken for none
no_creatures_left_off_by_one(count) == count <= 1

\* the test of the loop that ends the run early
no_creatures_left(count) == count = 0

\* the call of run_n_steps(num_steps); with num_steps = 0 the loop body never
\* runs and Ok is returned at once. The call keeps the time step and the
\* length of the creature list it met, and pops collects the length of the
\* list at the end of every step of the run.
RunNSteps ==
    /\ pc = "idle"
    /\ ~in_run_n_steps
    /\ \E num_steps \in 0..MaxTicks :
          /\ ticks + num_steps <= MaxTicks
          /\ call' = [name |-> "run_n_steps", num_steps |-> num_steps, n |-> 0,
                      result |-> IF num_steps = 0 THEN "Ok" ELSE "running",
                      time_step |-> time_step, population |-> Len(creatures),
                      pops |-> <<>>]
          /\ last_call' = IF num_steps = 0 THEN "run_n_steps" ELSE last_call
    /\ UNCHANGED <<params, creatures, positions, time_step, num_food, num_creatures,
                   num_blank, num_walls, num_total_creatures, num_kills,
                   num_natural_deaths, pc, creature_idx, temp_new_creatures, turn,
                   created_ids, removed_ids, last_removed, ticks, inputs, food_added>>
    /\ UNCHANGED brainVars

\* the rest of the loop body after advance_step has returned: Err(EarlyExitErr)
\* when no creature is counted, Ok(()) after the last pass, the next pass
\* otherwise
RunCheck ==
    /\ pc = "check"
    /\ LET pops == Append(call.pops, Len(creatures))
           n == call.n + 1
           result == IF no_creatures_left(num_creatures) THEN "EarlyExitErr"
                     ELSE IF n = call.num_steps THEN "Ok"
                     ELSE "running"
       IN  /\ call' = [call EXCEPT !.pops = pops, !.n = n, !.result = result]
           /\ last_call' = IF result = "running" THEN last_call ELSE "run_n_steps"
    /\ pc' = "idle"
    /\ UNCHANGED <<params, creatures, positions, time_step, num_food, num_creatures,
                   num_blank, num_walls, num_total_creatures, num_kills,
                   num_natural_deaths, creature_idx, temp_new_creatures, turn,
                   created_ids, removed_ids, last_removed, ticks, inputs, food_added>>
    /\ UNCHANGED brainVars

\* the advance_step call of the loop body
RunStep == in_run_n_steps /\ StartStep

\* the runs in which every step is taken by run_n_steps
NextRun ==
    \/ RunNSteps
    \/ RunStep
    \/ CreatureTurn
    \/ RemoveDead
    \/ PlaceOffspring
    \/ FinishStep
    \/ RunCheck

SpecRun == Init /\ [][NextRun]_vars

-----------------------------------------------------------------------------
(* to_json and load_from_json. A JSON text is the sequence of the members  *)
(* of its top-level object; the environments explored all have EnvX x EnvY *)
(* cells.                                                                  *)

\* the fields of EnvironmentV1 in the order serde writes them
EnvFields ==
    <<"params", "creatures", "positions", "time_step", "num_food", "num_creatures",
      "num_blank", "num_walls", "num_total_creatures", "num_kills",
      "num_natural_deaths">>

\* EnvironmentV1::to_json: one member per field
to_json(env) ==
    [i \in 1..Len(EnvFields) |-> [key |-> EnvFields[i], value |-> env[EnvFields[i]]]]

\* the value of the first member of the text with that key
member(text, key) ==
    text[CHOOSE j \in 1..Len(text) :
            text[j].key = key /\ \A k \in 1..(j - 1) : text[k].key # key].value

\* serde_json::from_str::<EnvironmentV1>: an error unless every field has a
\* member
from_str(text) ==
    IF \A i \in 1..Len(EnvFields) : \E j \in 1..Len(text) : text[j].key = EnvFields[i]
    THEN [ok |-> TRUE,
          env |-> [params |-> member(text, "params"),
                   creatures |-> member(text, "creatures"),
                   positions |-> member(text, "positions"),
                   time_step |-> member(text, "time_step"),
                   num_food |-> member(text, "num_food"),
                   num_creatures |-> member(text, "num_creatures"),
                   num_blank |-> member(text, "num_blank"),
                   num_walls |-> member(text, "num_walls"),
                   num_total_creatures |-> member(text, "num_total_creatures"),
                   num_kills |-> member(text, "num_kills"),
                   num_natural_deaths |-> member(text, "num_natural_deaths")]]
    ELSE [ok |-> FALSE]

\* a grid with every cell of one kind replaced by BlankSpace
without_kind(grid, kind) ==
    [x \in DOMAIN grid |-> [y \in DOMAIN grid[x] |->
        IF grid[x][y].t = kind THEN BlankSpace ELSE grid[x][y]]]

\* a grid with every cell where new_positions holds the kind set to it
with_kind_from(grid, new_positions, kind) ==
    [x \in DOMAIN grid |-> [y \in DOMAIN grid[x] |->
        IF new_positions[x][y].t = kind THEN new_positions[x][y] ELSE grid[x][y]]]

\* how many cells of new_positions hold the kind
count_kind(new_positions, kind) ==
    Cardinality({xy \in (DOMAIN new_positions) \X (DOMAIN new_positions[0]) :
                    new_positions[xy[1]][xy[2]].t = kind})

\* remove_all_walls, remove_all_creatures, remove_all_food
remove_all_walls(env) ==
    [env EXCEPT !.positions = without_kind(@, "Wall"), !.num_walls = 0]
remove_all_creatures(env) ==
    [env EXCEPT !.positions = without_kind(@, "Creature"), !.num_creatures = 0]
remove_all_food(env) ==
    [env EXCEPT !.positions = without_kind(@, "Food"), !.num_food = 0]

\* add_food_from_positions
add_food_from_positions(env, new_positions) ==
    [env EXCEPT !.positions = with_kind_from(@, new_positions, "Food"),
                !.num_food = count_kind(new_positions, "Food")]

\* add_walls_from_positions: nothing is done for positions of another size
add_walls_from_positions(env, new_positions) ==
    IF Cardinality(DOMAIN new_positions) # env.params.env_x_size
       \/ Cardinality(DOMAIN new_positions[0]) # env.params.env_y_size
    THEN env
    ELSE [env EXCEPT !.positions = with_kind_from(@, new_positions, "Wall"),
                     !.num_walls = count_kind(new_positions, "Wall")]

\* the loop of update_creature_positions, from creature c_idx on
RECURSIVE place_creatures(_, _, _)
place_creatures(list, grid, c_idx) ==
    IF c_idx > Len(list) THEN grid
    ELSE place_creatures(list,
             SetCell(grid, list[c_idx].position, CreatureSpace(list[c_idx].id)),
             c_idx + 1)

\* update_creature_positions
update_creature_positions(env) ==
    [env EXCEPT !.positions = place_creatures(env.creatures, @, 1),
                !.num_creatures = Len(env.creatures)]

\* the load_parameters arm: a blank board when the size changes
load_parameters(env, temp_env) ==
    [env EXCEPT
        !.positions =
            IF temp_env.params.env_x_size # env.params.env_x_size
               \/ temp_env.params.env_y_size # env.params.env_y_size
            THEN [x \in 0..(temp_env.params.env_x_size - 1) |->
                    [y \in 0..(temp_env.params.env_y_size - 1) |-> BlankSpace]]
            ELSE @,
        !.params = temp_env.params]

\* load_from_json with the text parsed after the selected kinds are removed
load_from_json_clears_first(env, json_contents, load_ops) ==
    LET r == from_str(json_contents)
        e1 == IF load_ops.load_creatures THEN remove_all_creatures(env) ELSE env
        e2 == IF load_ops.load_walls THEN remove_all_walls(e1) ELSE e1
        e3 == IF load_ops.load_food THEN remove_all_food(e2) ELSE e2
    IN  IF ~r.ok THEN e3
        ELSE LET temp_env == r.env
                 p1 == IF load_ops.load_parameters THEN load_parameters(e3, temp_env)
                       ELSE e3
                 p2 == IF load_ops.load_creatures
                       THEN update_creature_positions(
                                [p1 EXCEPT !.creatures = temp_env.creatures])
                       ELSE p1
                 p3 == IF load_ops.load_walls
                       THEN add_walls_from_positions(p2, temp_env.positions) ELSE p2
             IN  IF load_ops.load_food
                 THEN add_food_from_positions(p3, temp_env.positions) ELSE p3

\* EnvironmentV1::load_from_json: the environment afterwards (load_all is
\* never read)
load_from_json(env, json_contents, load_ops) ==
    LET r == from_str(json_contents) IN
    IF ~r.ok THEN env
    ELSE LET temp_env == r.env
             e1 == IF load_ops.load_parameters THEN load_parameters(env, temp_env)
                   ELSE env
             e2 == IF load_ops.load_creatures
                   THEN update_creature_positions(
                            [remove_all_creatures(e1) EXCEPT
                                !.creatures = temp_env.creatures])
                   ELSE e1
             e3 == IF load_ops.load_walls
                   THEN add_walls_from_positions(remove_all_walls(e2),
                                                 temp_env.positions)
                   ELSE e2
         IN  IF load_ops.load_food
             THEN add_food_from_positions(remove_all_food(e3), temp_env.positions)
             ELSE e3

\* an environment saved in the middle of a run: creatures 2 and 5, a wall and
\* a food piece in the top row, the FightSpace of a kill three steps ago
SavedLater ==
    LET grid == SetCell(SetCell(SetCell(SetCell(SetCell(EmptyGrid,
                    Pos(0, 0), WallSpace), Pos(1, 0), FoodSpace),
                    Pos(2, 0), FightSpace(FIGHT_SPACE_PERSISTENCE_STEPS - 3)),
                    Pos(0, 1), CreatureSpace(2)), Pos(2, 1), CreatureSpace(5))
        c2 == [NewCreature(2, Pos(0, 1), "Up") EXCEPT !.age = 6, !.energy = 37]
        c5 == [NewCreature(5, Pos(2, 1), "Left") EXCEPT !.age = 1]
    IN  [params |-> RichFoodEnvParams,
         creatures |-> update_creature_vision(grid, <<c2, c5>>),
         positions |-> grid, time_step |-> 7,
         num_food |-> count_food(grid), num_creatures |-> 1,
         num_blank |-> count_blank(grid), num_walls |-> count_walls(grid),
         num_total_creatures |-> 6, num_kills |-> 1, num_natural_deaths |-> 2]

\* an environment saved right after new_rand
SavedFresh ==
    LET l == [a |-> Pos(1, 1), b |-> Pos(2, 1), food |-> Pos(0, 0), wall |-> Pos(1, 0)]
    IN  [params |-> DefaultEnvParams,
         creatures |-> <<NewCreature(0, l.a, "Up"), NewCreature(1, l.b, "Left")>>,
         positions |-> LayoutGrid(l, 0, 1), time_step |-> 0,
         num_food |-> 0, num_creatures |-> 0, num_blank |-> EnvX * EnvY,
         num_walls |-> 0,
         num_total_creatures |-> 2 * DefaultEnvParams.num_start_creatures,
         num_kills |-> 0, num_natural_deaths |-> 0]

SavedEnvs == {SavedLater, SavedFresh}

\* texts that do not parse: a file cut in the middle, and a file of a version
\* of the program that did not have the two death counters yet
Truncated(text) == SubSeq(text, 1, 5)
OldVersion(text) ==
    SelectSeq(text, LAMBDA m : m.key \notin {"num_kills", "num_natural_deaths"})
JsonTexts ==
    {to_json(e) : e \in SavedEnvs}
        \cup {Truncated(to_json(SavedLater)), OldVersion(to_json(SavedFresh))}

\* JsonEnvLoadParams: every choice of the four kinds, and load_all on its own
LoadOps ==
    {[load_all |-> FALSE, load_parameters |-> lp, load_creatures |-> lc,
      load_walls |-> lw, load_food |-> lf] : lp, lc, lw, lf \in BOOLEAN}
    \cup {[load_all |-> TRUE, load_parameters |-> FALSE, load_creatures |-> FALSE,
           load_walls |-> FALSE, load_food |-> FALSE]}

\* a call of load_from_json between two steps (one per run)
LoadFromJson ==
    /\ pc = "idle" /\ inputs < MaxInputs
    /\ call.name # "load_from_json"
    /\ \E json_contents \in JsonTexts, load_ops \in LoadOps :
          LET e == load_from_json(Env, json_contents, load_ops) IN
          /\ params' = e.params /\ creatures' = e.creatures
          /\ positions' = e.positions /\ time_step' = e.time_step
          /\ num_food' = e.num_food /\ num_creatures' = e.num_creatures
          /\ num_blank' = e.num_blank /\ num_walls' = e.num_walls
          /\ num_total_creatures' = e.num_total_creatures
          /\ num_kills' = e.num_kills
          /\ num_natural_deaths' = e.num_natural_deaths
          /\ call' = [name |-> "load_from_json", json_contents |-> json_contents,
                      load_ops |-> load_ops, before |-> Env]
    /\ inputs' = inputs + 1
    /\ last_call' = "load_from_json"
    /\ UNCHANGED <<pc, creature_idx, temp_new_creatures, turn, created_ids,
                   removed_ids, last_removed, ticks, food_added>>
    /\ UNCHANGED brainVars

NextLoad == LoadFromJson

SpecLoad == Init /\ [][NextLoad]_vars

-----------------------------------------------------------------------------
(* The end of a step on a long grid: the placement of the offspring of a   *)
(* creature whose neighbourhood is wider than the grid of the other runs.  *)

\* a strip of WideLen cells, lying along x or along y
WideEnvParams ==
    {[DefaultEnvParams EXCEPT !.env_x_size = sz[1], !.env_y_size = sz[2]]
       : sz \in {<<WideLen, 1>>, <<1, WideLen>>}}

\* what stands on cell k of the strip when it is not blank
StripBlocker(k) ==
    CASE k % 3 = 0 -> FoodSpace
      [] k % 3 = 1 -> WallSpace
      [] OTHER -> FightSpace(3)

\* advance_step has run its creature loop: creature 0, on cell at of the
\* strip, was forced to reproduce in its turn and its one or two children
\* are pending; creature 1 was removed in an earlier step, or it stands on
\* the next cell and has just spent its last energy on a rotation; the
\* first child drew a darker colour
InitSpawn ==
    \E prm \in WideEnvParams, at \in 0..(WideLen - 1),
       blocked \in SUBSET (0..(WideLen - 1)), num_offspring \in 1..2,
       facing \in CreatureOrientation, starving \in BOOLEAN :
        LET cell(k) == IF prm.env_y_size = 1 THEN Pos(k, 0) ELSE Pos(0, k)
            grid == [x \in 0..(prm.env_x_size - 1) |->
                       [y \in 0..(prm.env_y_size - 1) |->
                          IF x + y = at THEN CreatureSpace(0)
                          ELSE IF starving /\ x + y = at + 1 THEN CreatureSpace(1)
                          ELSE IF x + y \in blocked THEN StripBlocker(x + y)
                          ELSE BlankSpace]]
            a == [NewCreature(0, cell(at), facing)
                    EXCEPT !.age = 5, !.energy = DEFAULT_MIN_REPRODUCE_ENERGY + 1]
            b == [NewCreature(1, cell(at + 1), "Up") EXCEPT !.age = 5, !.energy = 1]
            list == update_creature_vision(grid, IF starving THEN <<a, b>> ELSE <<a>>)
            ra == perform_next_action(list[1], "Stay")
            born == spawn_offspring(ra.creature, 4,
                        [j \in 1..num_offspring |->
                           IF j = 1 THEN <<0, MIN_COLOR_DEVIATION, MIN_COLOR_DEVIATION>>
                           ELSE NoDeviation])
            rb == perform_next_action(list[2], "RotateCW")
            counters ==
                [num_food |-> count_food(grid), num_creatures |-> count_creatures(grid),
                 num_blank |-> count_blank(grid), num_walls |-> count_walls(grid),
                 num_kills |-> 0, num_natural_deaths |-> IF starving THEN 0 ELSE 1,
                 time_step |-> 5, positions |-> grid]
        IN  /\ at \notin blocked
            /\ starving => at + 1 < WideLen /\ at + 1 \notin blocked
            /\ params = prm
            /\ ra.action = "Reproduce"
            /\ creatures = IF starving THEN <<ra.creature, rb.creature>>
                                        ELSE <<ra.creature>>
            /\ positions = grid
            /\ time_step = counters.time_step
            /\ num_food = counters.num_food /\ num_creatures = counters.num_creatures
            /\ num_walls = counters.num_walls /\ num_blank = counters.num_blank
            /\ num_total_creatures = 4 + num_offspring
            /\ num_kills = counters.num_kills
            /\ num_natural_deaths = counters.num_natural_deaths
            /\ temp_new_creatures = born
            /\ created_ids = <<0, 1>> \o [j \in 1..num_offspring |-> born[j].id]
            /\ removed_ids = IF starving THEN {} ELSE {1}
            /\ last_removed = <<>>
            /\ pc = "turn" /\ creature_idx = Len(creatures) + 1
            /\ turn = IF starving
                      THEN [action |-> rb.action, evaluated |-> rb.evaluated,
                            before |-> counters @@
                                [creatures |-> <<ra.creature, list[2]>>,
                                 temp_new_creatures |-> born,
                                 num_total_creatures |-> 4 + num_offspring]]
                      ELSE [action |-> ra.action, evaluated |-> ra.evaluated,
                            before |-> counters @@
                                [creatures |-> list, temp_new_creatures |-> <<>>,
                                 num_total_creatures |-> 4]]
            /\ ticks = 1 /\ inputs = (IF starving THEN 1 ELSE 0) /\ food_added = 0
            /\ last_call = "advance_step" /\ call = NoCall
            /\ InitBrainIdle

NextSpawn ==
    \/ RemoveDead
    \/ PlaceOffspring
    \/ FinishStep

SpecSpawn == InitSpawn /\ [][NextSpawn]_vars

-----------------------------------------------------------------------------
(* get_next_position_for_creature on its own: the candidate cell for every *)
(* position, orientation and action on grids of three shapes               *)

\* new_rand for a grid without a start population
InitMove ==
    \E prm \in {DefaultEnvParams} \cup WideEnvParams :
        /\ params = [prm EXCEPT !.num_start_creatures = 0, !.num_start_food = 0,
                                !.num_start_walls = 0]
        /\ creatures = <<>>
        /\ positions = [x \in 0..(prm.env_x_size - 1) |->
                          [y \in 0..(prm.env_y_size - 1) |-> BlankSpace]]
        /\ time_step = 0 /\ num_food = 0 /\ num_creatures = 0 /\ num_walls = 0
        /\ num_blank = prm.env_x_size * prm.env_y_size
        /\ num_total_creatures = 0 /\ num_kills = 0 /\ num_natural_deaths = 0
        /\ created_ids = <<>> /\ removed_ids = {}
        /\ last_call = "new_rand"
        /\ InitEnvCommon /\ InitBrainIdle

\* one call of get_next_position_for_creature, recorded with its result
GetNextPosition ==
    /\ pc = "idle"
    /\ \E action \in CreatureActions, position \in GridCells(positions),
          orientation \in CreatureOrientation :
         call' = [name |-> "get_next_position_for_creature", action |-> action,
                  position |-> position, orientation |-> orientation,
                  result |-> get_next_position_for_creature(action, position,
                                                            orientation)]
    /\ UNCHANGED <<params, creatures, positions, time_step, num_food, num_creatures,
                   num_blank, num_walls, num_total_creatures, num_kills,
                   num_natural_deaths, pc, creature_idx, temp_new_creatures, turn,
                   created_ids, removed_ids, last_removed, ticks, inputs, food_added,
                   last_call>>
    /\ UNCHANGED brainVars

NextMove == GetNextPosition

SpecMove == InitMove /\ [][NextMove]_vars

-----------------------------------------------------------------------------
(* Construction: new_rand called by a front end with its own parameters    *)
(* (console, led) or by the gui's generate_new_environment after           *)
(* update_params_from_text, followed by steps of the environment built     *)

\* parameters with the two creature energies set away from the defaults
CustomEnergyParams ==
    [DefaultEnvParams EXCEPT !.creature_starting_energy = DEFAULT_ENERGY_LEVEL + 10,
                             !.creature_repro_energy_cost = 10]

\* the parameters a caller can ask for: a population that fits, one with
\* a cell too few for the wall, more food than cells, and a mutation
\* probability above 1
GivenParams ==
    {[CustomEnergyParams EXCEPT !.num_start_creatures = 1, !.num_start_food = 2,
                                !.num_start_walls = 1],
     [DefaultEnvParams EXCEPT !.num_start_creatures = 2,
                              !.num_start_food = EnvX * EnvY - 2,
                              !.num_start_walls = 1],
     [DefaultEnvParams EXCEPT !.num_start_creatures = 0,
                              !.num_start_food = EnvX * EnvY + 1,
                              !.num_start_walls = 0],
     [DefaultEnvParams EXCEPT !.num_start_creatures = 1, !.num_start_food = 0,
                              !.num_start_walls = 0,
                              !.mutation_prob_num = 3, !.mutation_prob_den = 2]}

\* the tests of update_params_from_text on the parsed parameters
params_from_text_valid(temp_params) ==
    LET num_spaces == temp_params.env_x_size * temp_params.env_y_size IN
    /\ ~(temp_params.env_x_size > 10000 \/ temp_params.env_y_size > 10000)
    /\ ~(temp_params.mutation_prob_num > temp_params.mutation_prob_den
         \/ temp_params.mutation_prob_num < 0)
    /\ ~(\/ temp_params.num_start_food > num_spaces
         \/ temp_params.num_start_creatures > num_spaces
         \/ temp_params.num_start_walls > num_spaces)

\* an environment without a population, as a front end holds it before it
\* builds the one it was asked for
InitNew ==
    /\ params = [DefaultEnvParams EXCEPT !.num_start_creatures = 0,
                                         !.num_start_food = 0, !.num_start_walls = 0]
    /\ creatures = <<>>
    /\ positions = EmptyGrid
    /\ time_step = 0 /\ num_food = 0 /\ num_creatures = 0 /\ num_walls = 0
    /\ num_blank = EnvX * EnvY
    /\ num_total_creatures = 0 /\ num_kills = 0 /\ num_natural_deaths = 0
    /\ created_ids = <<>> /\ removed_ids = {}
    /\ last_call = "none"
    /\ InitEnvCommon /\ InitBrainIdle

\* the head of new_rand: the blank grid and the counters of the temporary
\* environment; caller names the function that called it
new_rand_begins(in_params, caller) ==
    /\ params' = in_params
    /\ creatures' = <<>>
    /\ positions' = [x \in 0..(in_params.env_x_size - 1) |->
                       [y \in 0..(in_params.env_y_size - 1) |-> BlankSpace]]
    /\ time_step' = 0 /\ num_food' = 0 /\ num_creatures' = 0 /\ num_walls' = 0
    /\ num_blank' = in_params.env_x_size * in_params.env_y_size
    /\ num_total_creatures' = in_params.num_start_creatures
    /\ num_kills' = 0 /\ num_natural_deaths' = 0
    /\ created_ids' = <<>> /\ removed_ids' = {}
    /\ pc' = "build"
    /\ last_call' = "new_rand"
    /\ call' = [name |-> caller, in_params |-> in_params, result |-> "building"]
    /\ UNCHANGED <<creature_idx, temp_new_creatures, turn, last_removed, ticks,
                   inputs, food_added>>

\* EnvironmentV1::new_rand called with parameters of the caller's own
NewRand ==
    /\ pc = "idle" /\ last_call = "none"
    /\ \E in_params \in GivenParams : new_rand_begins(in_params, "new_rand")
    /\ UNCHANGED brainVars

\* generate_new_environment of the gui: new_rand is called only when
\* update_params_from_text returns true
GenerateNewEnvironment ==
    /\ pc = "idle" /\ last_call = "none"
    /\ \E temp_params \in GivenParams :
          IF params_from_text_valid(temp_params)
          THEN new_rand_begins(temp_params, "generate_new_environment")
          ELSE /\ call' = [name |-> "generate_new_environment",
                           in_params |-> temp_params, result |-> "rejected"]
               /\ last_call' = "generate_new_environment"
               /\ UNCHANGED <<params, creatures, positions, time_step, num_food,
                              num_creatures, num_blank, num_walls,
                              num_total_creatures, num_kills, num_natural_deaths,
                              pc, creature_idx, temp_new_creatures, turn,
                              created_ids, removed_ids, last_removed, ticks, inputs,
                              food_added>>
    /\ UNCHANGED brainVars

\* one pass of the three loops of new_rand, in their order: a food piece,
\* then a creature with the next id and a drawn orientation, then a wall,
\* each on the cell get_rand_blank_space returns; the environment is
\* returned when the loops are over
Populate ==
    /\ pc = "build"
    /\ IF count_food(positions) < params.num_start_food THEN
           \/ \E pos \in rand_blank_space_found(positions) :
                /\ positions' = add_food_space(positions, pos)
                /\ UNCHANGED <<creatures, num_total_creatures, created_ids, pc, call>>
           \/ /\ rand_blank_space_panics(positions)
              /\ pc' = "panic"
              /\ UNCHANGED <<positions, creatures, num_total_creatures, created_ids,
                             call>>
       ELSE IF Len(creatures) < params.num_start_creatures THEN
           \/ \E pos \in rand_blank_space_found(positions),
                 orientation \in CreatureOrientation :
                LET creature == NewCreature(Len(creatures), pos, orientation) IN
                /\ positions' = SetCell(positions, pos, CreatureSpace(creature.id))
                /\ creatures' = Append(creatures, creature)
                /\ num_total_creatures' = num_total_creatures + 1
                /\ created_ids' = Append(created_ids, creature.id)
                /\ UNCHANGED <<pc, call>>
           \/ /\ rand_blank_space_panics(positions)
              /\ pc' = "panic"
              /\ UNCHANGED <<positions, creatures, num_total_creatures, created_ids,
                             call>>
       ELSE IF count_walls(positions) < params.num_start_walls THEN
           \/ \E pos \in rand_blank_space_found(positions) :
                /\ positions' = add_wall_space(positions, pos)
                /\ UNCHANGED <<creatures, num_total_creatures, created_ids, pc, call>>
           \/ /\ rand_blank_space_panics(positions)
              /\ pc' = "panic"
              /\ UNCHANGED <<positions, creatures, num_total_creatures, created_ids,
                             call>>
       ELSE
           /\ pc' = "idle"
           /\ call' = [call EXCEPT !.result = "built"]
           /\ UNCHANGED <<positions, creatures, num_total_creatures, created_ids>>
    /\ UNCHANGED <<params, time_step, num_food, num_creatures, num_blank, num_walls,
                   num_kills, num_natural_deaths, creature_idx, temp_new_creatures,
                   turn, removed_ids, last_removed, ticks, inputs, food_added,
                   last_call>>
    /\ UNCHANGED brainVars

\* the steps of the environment that was built
StepOfBuilt == last_call # "none" /\ StartStep

NextNew ==
    \/ NewRand
    \/ GenerateNewEnvironment
    \/ Populate
    \/ StepOfBuilt
    \/ CreatureTurn
    \/ RemoveDead
    \/ PlaceOffspring
    \/ FinishStep

SpecNew == InitNew /\ [][NextNew]_vars

-----------------------------------------------------------------------------
(* perform_next_action on its own: creatures of every kind of energy and   *)
(* age, with the default costs and with costs that all differ              *)

\* CreatureParams with a cost of its own for every kind of action
DistinctCostParams ==
    [DefaultCreatureParams EXCEPT !.move_energy_cost = 2, !.rotate_energy_cost = 3,
                                  !.kill_energy_cost = 4,
                                  !.reproduce_energy_cost = 5]

\* CreatureParams with the largest cost of a reproduction
CostlyReproduceParams ==
    [DefaultCreatureParams EXCEPT !.reproduce_energy_cost = MAX_POSSIBLE_ENERGY]

\* the creatures perform_next_action is called on: created at (0, 0) and
\* then aged, fed or starved
ActingCreatures ==
    {[NewCreature(0, Pos(0, 0), orientation) EXCEPT
         !.params = prm, !.energy = energy, !.age = age]
       : orientation \in {"Up", "Left"},
         prm \in {DefaultCreatureParams, DistinctCostParams, CostlyReproduceParams},
         energy \in {0, 1, 2, 3, 4, 5, DEFAULT_ENERGY_LEVEL,
                     DEFAULT_MIN_REPRODUCE_ENERGY, DEFAULT_MIN_REPRODUCE_ENERGY + 1},
         age \in {0, MAX_POSSIBLE_AGE - 1, MAX_POSSIBLE_AGE}}

\* one call of perform_next_action, recorded with the answer of the brain
\* and the result
PerformNextAction ==
    /\ pc = "idle"
    /\ \E c \in ActingCreatures, brain_action \in CreatureActions :
         call' = [name |-> "perform_next_action", creature |-> c,
                  brain_action |-> brain_action,
                  result |-> perform_next_action(c, brain_action)]
    /\ UNCHANGED <<params, creatures, positions, time_step, num_food, num_creatures,
                   num_blank, num_walls, num_total_creatures, num_kills,
                   num_natural_deaths, pc, creature_idx, temp_new_creatures, turn,
                   created_ids, removed_ids, last_removed, ticks, inputs, food_added,
                   last_call>>
    /\ UNCHANGED brainVars

NextAct == PerformNextAction

SpecAct == InitNew /\ [][NextAct]_vars

-----------------------------------------------------------------------------
(* One brain on its own: a fresh Brain, its inputs, its decision and its   *)
(* copy for an offspring                                                   *)

\* no environment is running
InitEnvNone ==
    /\ params = DefaultEnvParams
    /\ creatures = <<>> /\ positions = EmptyGrid
    /\ time_step = 0 /\ num_food = 0 /\ num_creatures = 0 /\ num_blank = 0
    /\ num_walls = 0 /\ num_total_creatures = 0 /\ num_kills = 0
    /\ num_natural_deaths = 0
    /\ pc = "brain" /\ creature_idx = 0 /\ temp_new_creatures = <<>>
    /\ turn = NoTurn /\ created_ids = <<>> /\ removed_ids = {}
    /\ last_removed = <<>> /\ ticks = 0 /\ inputs = 0 /\ food_added = 0
    /\ last_call = "none" /\ call = NoCall

\* Brain::new for a creature that has not sensed anything yet
InitBrain ==
    /\ InitEnvNone
    /\ brain \in NewBrains
    /\ child = NoBrain
    /\ next_action = "None"

\* sense_surroundings: an input neuron is set before the decision
SetInput ==
    /\ pc = "brain" /\ next_action = "None" /\ child = NoBrain
    /\ \E idx \in 0..(NumInputs - 1), v \in InputVals :
          /\ brain.net.activations[1][idx + 1][1] # v
          /\ brain' = set_input(brain, idx, v)
    /\ UNCHANGED <<child, next_action>>
    /\ UNCHANGED envVars

\* the decision of perform_next_action
GetNextAction ==
    /\ pc = "brain" /\ next_action = "None" /\ child = NoBrain
    /\ brain' = get_next_action(brain).brain
    /\ next_action' = get_next_action(brain).action
    /\ UNCHANGED child
    /\ UNCHANGED envVars

\* new_offspring copies the brain of the parent (the last call of a run)
NewCopy ==
    /\ pc = "brain" /\ next_action = "None" /\ child = NoBrain
    /\ \E mutation_prob \in MutationProbs :
          \E c \in new_copy(brain, mutation_prob) :
              child' = [brain |-> c, mutation_prob |-> mutation_prob]
    /\ UNCHANGED <<brain, next_action>>
    /\ UNCHANGED envVars

NextBrain ==
    \/ SetInput
    \/ GetNextAction
    \/ NewCopy

SpecBrain == InitBrain /\ [][NextBrain]_vars

-----------------------------------------------------------------------------
(* Properties *)

\* the listed creatures standing at position p with the id of the cell there
holders(p) ==
    {i \in 1..Len(creatures) :
        /\ creatures[i].position = p
        /\ CellAt(positions, p) = CreatureSpace(creatures[i].id)}

\* C1: between two steps (after construction, after every advance_step and
\* after every add_* call) a cell holds CreatureSpace(id) iff exactly one
\* listed creature has that id and that position, no two listed creatures
\* share a position, and the number of creature cells is the list length
C1_Occupancy ==
    pc = "idle" =>
        /\ \A p \in Cells :
              CellAt(positions, p).t = "Creature" => Cardinality(holders(p)) = 1
        /\ \A i \in 1..Len(creatures) :
              /\ CellAt(positions, creatures[i].position) = CreatureSpace(creatures[i].id)
              /\ Cardinality({j \in 1..Len(creatures) :
                                 creatures[j].id = creatures[i].id}) = 1
        /\ \A i, j \in 1..Len(creatures) :
              i # j => creatures[i].position # creatures[j].position
        /\ Cardinality(CellsOfKind(positions, "Creature")) = Len(creatures)

\* a step has ended in which a creature left its cell, one was removed and an
\* offspring was placed
C1_Witness ==
    /\ pc = "idle" /\ ticks >= 1
    /\ last_removed # <<>>
    /\ \E i \in 1..Len(creatures) : creatures[i].age = 0 /\ creatures[i].id >= 5
    /\ \E i \in 1..Len(creatures) :
          creatures[i].id = 4 /\ creatures[i].position # Pos(2, 0)
                              /\ creatures[i].position # Pos(1, 0)

\* C2: between two steps every listed creature has 0 <= energy <=
\* MAX_POSSIBLE_ENERGY and 0 <= age <= MAX_POSSIBLE_AGE
C2_Bounds ==
    pc = "idle" =>
        \A i \in 1..Len(creatures) :
            /\ 0 <= creatures[i].energy /\ creatures[i].energy <= MAX_POSSIBLE_ENERGY
            /\ 0 <= creatures[i].age /\ creatures[i].age <= MAX_POSSIBLE_AGE

\* a step has ended in which a creature ate a piece worth more than the room
\* it had left below the cap
C2_Witness ==
    /\ pc = "idle" /\ ticks >= 1
    /\ params.energy_per_food_piece = MAX_POSSIBLE_ENERGY
    /\ \E i \in 1..Len(creatures) :
          /\ creatures[i].energy = MAX_POSSIBLE_ENERGY
          /\ creatures[i].last_action \in MoveActions

\* the output layer of the brain after its evaluation, the largest
\* activation in it and the output neurons that hold it
OutputLayer == brain.net.activations[brain.net.num_layers]
MaxActivation ==
    CHOOSE a \in {OutputLayer[i][1] : i \in 1..Len(OutputLayer)} :
        \A i \in 1..Len(OutputLayer) : OutputLayer[i][1] <= a
MaxNeurons == {i \in 1..Len(OutputLayer) : OutputLayer[i][1] = MaxActivation}

\* C3 as stated: get_next_action returns the action of the output neuron
\* with the largest activation, and of several neurons that share the largest
\* activation (all at 0 included) the one with the lowest index
C3_LowestIndexWins ==
    next_action # "None" =>
        \E i \in MaxNeurons :
            /\ \A j \in MaxNeurons : i <= j
            /\ next_action = brain.output_node_types[i]

\* C3 amended: get_next_action returns the action of the output neuron with
\* the largest activation, and of several neurons that share the largest
\* activation (all at 0 included) the one with the highest index
C3_HighestIndexWins ==
    next_action # "None" =>
        \E i \in MaxNeurons :
            /\ \A j \in MaxNeurons : i >= j
            /\ next_action = brain.output_node_types[i]

\* a decision was taken with two of the three output neurons sharing a
\* largest activation above 0
C3_Witness ==
    /\ next_action # "None"
    /\ MaxActivation > 0
    /\ MaxNeurons = {1, 2}

\* C6 as stated: every weight and bias of the brain new_copy returns for
\* mutation probability 0 equals the parent's, whatever the random draws
C6_ZeroProbabilityCopiesExactly ==
    (child # NoBrain /\ child.mutation_prob = 0) =>
        /\ child.brain.net.weights = brain.net.weights
        /\ child.brain.net.biases = brain.net.biases

\* C4: no two creatures ever created share an id (the ids are handed out in
\* strictly increasing order), the offspring of a step get consecutive ids
\* that end just below the running total num_total_creatures, and the id
\* of a removed creature is never held by a listed or pending creature
C4_UniqueIds ==
    /\ \A i, j \in 1..Len(created_ids) : i < j => created_ids[i] < created_ids[j]
    /\ \A i \in 1..Len(created_ids) : created_ids[i] < num_total_creatures
    /\ \A i \in 1..Len(creatures) :
          /\ creatures[i].id \notin removed_ids
          /\ \E k \in 1..Len(created_ids) : created_ids[k] = creatures[i].id
    /\ \A j \in 1..Len(temp_new_creatures) :
          /\ temp_new_creatures[j].id \notin removed_ids
          /\ \E k \in 1..Len(created_ids) : created_ids[k] = temp_new_creatures[j].id
          /\ pc = "turn" =>
                temp_new_creatures[j].id =
                    num_total_creatures - Len(temp_new_creatures) + j - 1

\* two offspring are pending in a step that follows the removal of a creature
\* of this run
C4_Witness ==
    /\ pc = "turn"
    /\ Len(temp_new_creatures) = 2
    /\ 0 \in removed_ids

\* a creature turn of the running step has just ended normally
TurnDone == pc = "turn" /\ turn.action # "None"

\* the vision reading of creature i of the list names a living listed
\* creature in the adjacent cell
can_kill(list, i) ==
    LET v == list[i].vision_state IN
    /\ v.obj_in_view /\ v.dist = 1 /\ v.space_type.t = "Creature"
    /\ \E j \in 1..Len(list) : list[j].id = v.space_type.v /\ ~is_dead(list[j])

\* what a creature is after a turn in which its brain chose action and
\* nothing but the price of the action came of it
only_charged(c, action) ==
    [c EXCEPT !.age = @ + 1, !.last_action = action,
              !.energy = saturating_sub(@, action_cost(c, action)),
              !.is_alive = saturating_sub(c.energy, action_cost(c, action)) # 0]

\* the counters and the pending offspring are as they were before the turn
CountersAsBefore ==
    /\ num_food = turn.before.num_food /\ num_creatures = turn.before.num_creatures
    /\ num_blank = turn.before.num_blank /\ num_walls = turn.before.num_walls
    /\ num_kills = turn.before.num_kills
    /\ num_natural_deaths = turn.before.num_natural_deaths
    /\ num_total_creatures = turn.before.num_total_creatures
    /\ temp_new_creatures = turn.before.temp_new_creatures
    /\ time_step = turn.before.time_step

\* C5: when the brain of a living creature chooses Kill, another creature is
\* changed only if the attacker's vision reading is a creature at distance
\* 1 whose id is that creature's and that creature is not dead; in every
\* other case the grid, the other creatures and the counters stay as they
\* are and the attacker only pays kill_energy_cost
C5_KillRule ==
    (TurnDone /\ turn.evaluated /\ creatures[creature_idx - 1].last_action = "Kill") =>
        LET i == creature_idx - 1
            was == turn.before.creatures
            v == was[i].vision_state
        IN  /\ Len(creatures) = Len(was)
            /\ \A j \in 1..Len(was) :
                  (j # i /\ creatures[j] # was[j]) =>
                      can_kill(was, i) /\ was[j].id = v.space_type.v
            /\ ~can_kill(was, i) =>
                  /\ positions = turn.before.positions
                  /\ \A j \in 1..Len(was) : j # i => creatures[j] = was[j]
                  /\ creatures[i] = only_charged(was[i], "Kill")
                  /\ CountersAsBefore

\* a creature chose Kill with another creature in view two cells away, and
\* that creature is as it was
C5_Witness ==
    /\ TurnDone /\ turn.evaluated /\ turn.action = "Kill"
    /\ LET i == creature_idx - 1
           was == turn.before.creatures
           v == was[i].vision_state
       IN  /\ v.obj_in_view /\ v.dist = 2 /\ v.space_type.t = "Creature"
           /\ \A j \in 1..Len(creatures) : j # i => creatures[j] = was[j]
           /\ creatures[i].energy = was[i].energy - DEFAULT_KILL_ENERGY_COST

\* the pending offspring of a step grow by k children with the ids from the
\* running total on
queues_offspring(k) ==
    /\ Len(temp_new_creatures') = Len(temp_new_creatures) + k
    /\ SubSeq(temp_new_creatures', 1, Len(temp_new_creatures)) = temp_new_creatures
    /\ \A j \in 1..k :
          temp_new_creatures'[Len(temp_new_creatures) + j].id = num_total_creatures + j - 1
    /\ num_total_creatures' = num_total_creatures + k

\* C7 as stated: a living creature whose energy is above the reproduction
\* threshold at its turn returns Reproduce without a brain evaluation, its
\* energy goes down by exactly reproduce_energy_cost, and advance_step queues
\* k offspring, 1 <= k <= max_offspring_per_reproduce, with the consecutive
\* ids from num_total_creatures on
C7_ForcedReproduction ==
    [][(/\ pc = "turn" /\ creature_idx <= Len(creatures)
        /\ creature_idx' = creature_idx + 1
        /\ ~is_dead(creatures[creature_idx])
        /\ creatures[creature_idx].energy > DEFAULT_MIN_REPRODUCE_ENERGY) =>
        LET i == creature_idx IN
        /\ turn'.action = "Reproduce" /\ ~turn'.evaluated
        /\ creatures'[i].energy =
               creatures[i].energy - creatures[i].params.reproduce_energy_cost
        /\ \E k \in 1..params.max_offspring_per_reproduce : queues_offspring(k)
      ]_vars

\* the creature whose turn has just ended had energy 1 and a move cost of 1,
\* and its brain chose a movement
StarvingMove ==
    /\ TurnDone
    /\ LET was == turn.before.creatures[creature_idx - 1] IN
       /\ ~is_dead(was)
       /\ was.energy = 1 /\ was.params.move_energy_cost = 1
    /\ turn.evaluated
    /\ creatures[creature_idx - 1].last_action \in MoveActions

\* the turn of StarvingMove killed the creature where it stood
StarvesInPlace ==
    LET i == creature_idx - 1 IN
    /\ creatures[i].energy = 0 /\ ~creatures[i].is_alive
    /\ creatures[i].position = turn.before.creatures[i].position
    /\ positions = turn.before.positions
    /\ turn.action = "Stay"

\* the creatures that starved on a movement among those the last removal took
starved_movers ==
    {k \in 1..Len(last_removed) :
        /\ last_removed[k].last_action \in MoveActions
        /\ last_removed[k].energy = 0 /\ ~last_removed[k].killed}

\* the creature is not in the list
absent(c) == \A i \in 1..Len(creatures) : creatures[i].id # c.id

\* an offspring placed in the running step stands on the cell
offspring_on(position) ==
    \E i \in 1..Len(creatures) :
        /\ creatures[i].position = position /\ creatures[i].age = 0
        /\ CellAt(positions, position) = CreatureSpace(creatures[i].id)

\* C8 as stated: a creature with energy 1 and move cost 1 whose brain chooses
\* a movement ends the turn with energy 0 and is_alive false without moving
\* or eating, and when the step has returned its former cell is BlankSpace
\* and it is not in the list
C8_StarvedCellBlank ==
    /\ StarvingMove => StarvesInPlace
    /\ (pc = "idle" /\ last_call = "advance_step") =>
          \A k \in starved_movers :
              /\ absent(last_removed[k])
              /\ CellAt(positions, last_removed[k].position) = BlankSpace

\* C8 amended: a creature with energy 1 and move cost 1 whose brain chooses a
\* movement ends the turn with energy 0 and is_alive false without moving or
\* eating; remove_dead_creatures takes it from the list and frees its cell,
\* and when the step has returned it is not in the list and its former cell
\* is BlankSpace, or holds an offspring or a new food piece placed later in
\* that step
C8_StarvedCellFreed ==
    /\ StarvingMove => StarvesInPlace
    /\ pc = "spawn" =>
          \A k \in starved_movers :
              /\ absent(last_removed[k])
              /\ \/ CellAt(positions, last_removed[k].position) = BlankSpace
                 \/ offspring_on(last_removed[k].position)
    /\ (pc = "idle" /\ last_call = "advance_step") =>
          \A k \in starved_movers :
              /\ absent(last_removed[k])
              /\ \/ CellAt(positions, last_removed[k].position) = BlankSpace
                 \/ CellAt(positions, last_removed[k].position) = FoodSpace
                 \/ offspring_on(last_removed[k].position)

\* a step has returned with a new food piece on the cell of a creature that
\* starved on a movement in it
C8_Witness ==
    /\ pc = "idle" /\ last_call = "advance_step"
    /\ \E k \in starved_movers :
          CellAt(positions, last_removed[k].position) = FoodSpace

\* the cell a creature aims at with a movement, on a grid
move_target(grid, c, action) ==
    CellAt(grid, get_next_position_for_creature(action, c.position, c.orientation))

\* the turn that has just ended returned a movement that aimed at a wall
WallBump ==
    /\ TurnDone
    /\ turn.action \in MoveActions
    /\ move_target(turn.before.positions, turn.before.creatures[creature_idx - 1],
                   turn.action) = WallSpace

\* C9: when the movement a living creature returns aims at a WallSpace cell,
\* the creature keeps its position, the grid (its own cell and the wall) is
\* unchanged, and move_energy_cost is still taken from its energy
C9_WallBlocks ==
    WallBump =>
        LET i == creature_idx - 1
            was == turn.before.creatures[i]
        IN  /\ creatures[i].position = was.position
            /\ positions = turn.before.positions
            /\ creatures[i].energy = was.energy - was.params.move_energy_cost
            /\ creatures[i] = only_charged(was, turn.action)

\* a creature has just returned a movement into a wall and paid for it
C9_Witness ==
    /\ WallBump
    /\ creatures[creature_idx - 1].position
           = turn.before.creatures[creature_idx - 1].position
    /\ creatures[creature_idx - 1].energy
           = turn.before.creatures[creature_idx - 1].energy - DEFAULT_MOVE_ENERGY_COST

\* C10 as stated: at the start and at the end of every advance_step the
\* counters num_blank, num_food, num_walls and num_creatures add up to
\* env_x_size * env_y_size
C10_CountersAddUp ==
    pc = "idle" =>
        num_blank + num_food + num_walls + num_creatures
            = params.env_x_size * params.env_y_size

\* C11 as stated: right after construction and at the end of every
\* advance_step the counter num_creatures is the number of living creatures
\* on the board, the length of the creature list
C11_LivingCounter ==
    (pc = "idle" /\ last_call \in {"new_rand", "advance_step"}) =>
        num_creatures = Len(creatures)

\* run_n_steps has just returned
RunReturned ==
    /\ pc = "idle" /\ last_call = "run_n_steps"
    /\ call.name = "run_n_steps" /\ call.result # "running"

\* C12: run_n_steps(n) performs at most n steps; it returns EarlyExitErr
\* right after the first step at whose end the creature list is empty, and
\* otherwise Ok after exactly n steps with time_step raised by n; it never
\* returns EarlyExitErr while the list is not empty, and never Ok with an
\* empty list when n >= 1
C12_RunNSteps ==
    call.name = "run_n_steps" =>
        /\ Len(call.pops) <= call.num_steps
        /\ \A k \in 1..(Len(call.pops) - 1) : call.pops[k] # 0
        /\ (call.result = "running" /\ pc = "idle") =>
              \A k \in 1..Len(call.pops) : call.pops[k] # 0
        /\ RunReturned =>
              /\ time_step = call.time_step + Len(call.pops)
              /\ call.result = "EarlyExitErr" =>
                    /\ call.pops # <<>> /\ call.pops[Len(call.pops)] = 0
                    /\ creatures = <<>>
              /\ call.result = "Ok" =>
                    /\ Len(call.pops) = call.num_steps
                    /\ \A k \in 1..Len(call.pops) : call.pops[k] # 0
                    /\ call.num_steps >= 1 => creatures # <<>>

\* run_n_steps(2) has returned EarlyExitErr after one step, in which the last
\* creature starved
C12_Witness ==
    /\ RunReturned
    /\ call.result = "EarlyExitErr"
    /\ call.num_steps = 2 /\ Len(call.pops) = 1
    /\ time_step = call.time_step + 1
    /\ call.population # 0

\* the running step has rescanned the grid and no creature has had its turn
JustRescanned == pc = "turn" /\ turn.action = "None"

\* C13: the rescan at the head of every advance_step takes 1 from the ttl of
\* every FightSpace(ttl) cell with ttl > 0, turns a FightSpace cell with
\* ttl = 0 into BlankSpace and leaves every other cell alone; and no step of
\* the program raises the ttl of a cell that is and stays a FightSpace
C13_FightDecay ==
    [][/\ \A p \in Cells :
             (CellAt(positions, p).t = "Fight" /\ CellAt(positions', p).t = "Fight")
                 => CellAt(positions', p).v <= CellAt(positions, p).v
       /\ (pc = "idle" /\ pc' = "turn") =>
             \A p \in Cells :
                 LET s == CellAt(positions, p) IN
                 CellAt(positions', p) =
                     IF s.t # "Fight" THEN s
                     ELSE IF s.v > 0 THEN [t |-> "Fight", v |-> s.v - 1]
                     ELSE [t |-> "Blank", v |-> 0]
      ]_vars

\* the second rescan of a run has just turned a FightSpace(0) cell into
\* BlankSpace
C13_Witness ==
    /\ JustRescanned /\ ticks = 2
    /\ \E p \in Cells :
          /\ CellAt(turn.before.positions, p) = FightSpace(0)
          /\ CellAt(positions, p) = BlankSpace

\* the step is a call of one of the three single-cell mutators
MutatorCall ==
    /\ pc = "idle" /\ pc' = "idle" /\ inputs' = inputs + 1
    /\ call'.name \in {"add_food_space", "add_wall_space", "add_blank_space"}

\* the SpaceStates a single-cell mutator writes
written_by(name) ==
    CASE name = "add_food_space" -> [t |-> "Food", v |-> 0]
      [] name = "add_wall_space" -> [t |-> "Wall", v |-> 0]
      [] name = "add_blank_space" -> [t |-> "Blank", v |-> 0]

\* C14: add_food_space, add_wall_space and add_blank_space called on a cell
\* that holds a CreatureSpace leave the grid and the creature list unchanged
\* and return normally; called on any other cell they set that cell to Food,
\* Wall or Blank and change no other cell (nor the creature list)
C14_SingleCellMutators ==
    [][MutatorCall =>
          LET p == call'.position IN
          /\ creatures' = creatures
          /\ CellAt(positions, p).t = "Creature" => positions' = positions
          /\ CellAt(positions, p).t # "Creature" =>
                /\ CellAt(positions', p) = written_by(call'.name)
                /\ \A q \in Cells \ {p} : CellAt(positions', q) = CellAt(positions, q)
      ]_vars

\* add_wall_space has been called on the cell of a creature, which is still
\* there, after an add_blank_space call that removed the wall of the grid
C14_Witness ==
    /\ pc = "idle" /\ call.name = "add_wall_space" /\ inputs = 2
    /\ CellAt(positions, call.position).t = "Creature"
    /\ CellsOfKind(positions, "Wall") = {}

\* load_from_json has just returned, and whether its text parsed
Loaded == pc = "idle" /\ call.name = "load_from_json"
LoadedOk == Loaded /\ from_str(call.json_contents).ok
LoadFailed == Loaded /\ ~from_str(call.json_contents).ok

\* the cells of a kind are where they were before the load
kind_kept(kind) ==
    \A p \in Cells :
        CellAt(call.before.positions, p).t = kind
            <=> CellAt(positions, p).t = kind

\* C15 as stated: load_from_json imports only the selected kinds and leaves
\* the rest alone: without load_parameters the parameters, without
\* load_creatures every creature (its list entry and its CreatureSpace
\* cell), without load_walls every wall and without load_food every food
\* piece is as before, and so are time_step and the lifetime counters
C15_PartialLoadFrame ==
    LoadedOk =>
        /\ ~call.load_ops.load_parameters => params = call.before.params
        /\ ~call.load_ops.load_creatures =>
              /\ creatures = call.before.creatures
              /\ \A p \in Cells :
                    CellAt(call.before.positions, p).t = "Creature"
                        => CellAt(positions, p) = CellAt(call.before.positions, p)
              /\ kind_kept("Creature")
        /\ ~call.load_ops.load_walls => kind_kept("Wall")
        /\ ~call.load_ops.load_food => kind_kept("Food")
        /\ time_step = call.before.time_step
        /\ num_total_creatures = call.before.num_total_creatures
        /\ num_kills = call.before.num_kills
        /\ num_natural_deaths = call.before.num_natural_deaths

\* C16: when the text passed to load_from_json does not deserialize into an
\* environment, the call returns with params, grid, creature list, counters
\* and time_step as they were, whatever the load options
C16_FailedLoadUnchanged == LoadFailed => Env = call.before

\* a text of an older version was loaded with all four kinds selected into
\* an environment that holds creatures
C16_Witness ==
    /\ LoadFailed
    /\ call.json_contents = OldVersion(to_json(SavedFresh))
    /\ call.load_ops.load_parameters /\ call.load_ops.load_creatures
    /\ call.load_ops.load_walls /\ call.load_ops.load_food
    /\ Len(creatures) = 2 /\ num_walls = 1

\* load_from_json was called with parameters, creatures, walls and food all
\* selected
LoadedEverything ==
    /\ LoadedOk
    /\ call.load_ops.load_parameters /\ call.load_ops.load_creatures
    /\ call.load_ops.load_walls /\ call.load_ops.load_food

\* C19 as stated: loading the text to_json gives for an environment E, with
\* parameters, creatures, walls and food all selected, into any other
\* environment yields E's grid (Fight cells included), ordered creature
\* list, counters and time_step
C19_RoundTrip ==
    \A E \in SavedEnvs :
        (LoadedEverything /\ call.json_contents = to_json(E)) =>
            /\ positions = E.positions
            /\ creatures = E.creatures
            /\ time_step = E.time_step
            /\ num_total_creatures = E.num_total_creatures
            /\ num_kills = E.num_kills
            /\ num_natural_deaths = E.num_natural_deaths
            /\ num_food = E.num_food /\ num_walls = E.num_walls
            /\ num_blank = E.num_blank /\ num_creatures = E.num_creatures

\* the running step is about to add its new food and the grid has no
\* BlankSpace cell left
FullBoardAtFood ==
    /\ pc = "spawn" /\ temp_new_creatures = <<>>
    /\ CellsOfKind(positions, "Blank") = {}

\* C17 as stated: when the search for a blank cell of the new-food step of
\* advance_step finds none (the grid has no blank cell left), the step still
\* completes and raises time_step
C17_FullBoardRecovers ==
    [][FullBoardAtFood => (pc' = "idle" /\ time_step' = time_step + 1)]_vars

\* C17 amended: on a grid without a blank cell the search for a blank cell
\* panics, so the step either stops in the panic, with time_step as it was,
\* or it had no food piece to add, and then it completes without changing a
\* cell
C17_FullBoardPanics ==
    [][FullBoardAtFood =>
          \/ pc' = "panic" /\ time_step' = time_step /\ positions' = positions
          \/ /\ pc' = "idle" /\ time_step' = time_step + 1
             /\ positions' = positions /\ food_added' = food_added
      ]_vars

\* a step has stopped in the panic of the search for a blank cell on a grid
\* that has none
C17_Witness ==
    /\ pc = "panic" /\ turn = NoTurn /\ ticks >= 1
    /\ temp_new_creatures = <<>>
    /\ CellsOfKind(positions, "Blank") = {}
    /\ time_step = 0

\* the loop over the pending offspring is at a pass
PlacingOffspring == pc = "spawn" /\ temp_new_creatures # <<>>

\* C18: each pass of the offspring loop either puts the pending offspring
\* on a cell that was BlankSpace and lies within MAX_OFFSPRING_SPAWN_DIST
\* cells, in x and in y, of the position of its parent, writing only that
\* cell and appending the offspring to the list, or drops the offspring
\* with the grid and the list unchanged; either way the step goes on
C18_OffspringPlacement ==
    [][PlacingOffspring =>
          LET new_creature == Head(temp_new_creatures)
              parent == creatures[1].position
          IN  /\ temp_new_creatures' = Tail(temp_new_creatures)
              /\ pc' = "spawn"
              /\ \/ positions' = positions /\ creatures' = creatures
                 \/ \E p \in GridCells(positions) :
                      /\ CellAt(positions, p) = BlankSpace
                      /\ Abs(p.x - parent.x) <= MAX_OFFSPRING_SPAWN_DIST
                      /\ Abs(p.y - parent.y) <= MAX_OFFSPRING_SPAWN_DIST
                      /\ positions' = SetCell(positions, p, CreatureSpace(new_creature.id))
                      /\ creatures' = Append(creatures,
                                             [new_creature EXCEPT !.position = p])
      ]_vars

\* a step has completed in which one child was placed at the full distance
\* from its parent and the other one was dropped, with blank cells left
\* further away
C18_Witness ==
    /\ pc = "idle" /\ Len(temp_new_creatures) = 0
    /\ num_total_creatures = 6 /\ Len(creatures) = 2
    /\ time_step = 6
    /\ Abs(creatures[2].position.x - creatures[1].position.x) = MAX_OFFSPRING_SPAWN_DIST
    /\ CellsOfKind(positions, "Blank") # {}

\* the creature whose turn has just ended was alive before the turn and the
\* turn brought its age to MAX_POSSIBLE_AGE
ReachedMaxAge ==
    /\ TurnDone
    /\ LET was == turn.before.creatures[creature_idx - 1] IN
       ~is_dead(was) /\ was.age + 1 = MAX_POSSIBLE_AGE

\* C20: a living creature whose age reaches MAX_POSSIBLE_AGE in its turn is
\* marked dead and returns Stay, and the turn neither evaluates its brain
\* nor turns it nor takes energy from it
C20_OldAgeDeath ==
    ReachedMaxAge =>
        LET was == turn.before.creatures[creature_idx - 1]
            now == creatures[creature_idx - 1]
        IN  /\ ~now.is_alive
            /\ turn.action = "Stay" /\ ~turn.evaluated
            /\ now.age = MAX_POSSIBLE_AGE
            /\ now.orientation = was.orientation
            /\ now.energy = was.energy

\* an advance_step has just returned
StepEnded == pc = "idle" /\ last_call = "advance_step" /\ ticks >= 1

\* the cell k steps in front of creature c, on the unbounded plane
cell_ahead(c, k) ==
    CASE c.orientation = "Up" -> Pos(c.position.x, c.position.y - k)
      [] c.orientation = "Down" -> Pos(c.position.x, c.position.y + k)
      [] c.orientation = "Left" -> Pos(c.position.x - k, c.position.y)
      [] OTHER -> Pos(c.position.x + k, c.position.y)

\* the distances, up to MAX_CREATURE_VIEW_DISTANCE, at which creature c has
\* a cell of the grid in front of it that is neither Blank nor Fight
seen_at(grid, c) ==
    {k \in 1..MAX_CREATURE_VIEW_DISTANCE :
        /\ cell_ahead(c, k) \in GridCells(grid)
        /\ CellAt(grid, cell_ahead(c, k)).t \notin {"Blank", "Fight"}}

\* C21: when advance_step returns, the vision reading of every listed
\* creature is the raycast on the grid as the step leaves it: the nearest
\* cell in front of it, within MAX_CREATURE_VIEW_DISTANCE and without
\* wrapping, that is neither Blank nor Fight, with its distance, its kind
\* and its colour (the fixed colour of food or walls, the colour the seen
\* creature has now); nothing in view otherwise
C21_FreshVision ==
    StepEnded =>
        \A i \in 1..Len(creatures) :
            LET c == creatures[i]
                v == c.vision_state
                hits == seen_at(positions, c)
            IN  IF hits = {} THEN ~v.obj_in_view
                ELSE LET k == CHOOSE d \in hits : \A e \in hits : d <= e
                         s == CellAt(positions, cell_ahead(c, k))
                     IN  /\ v.obj_in_view /\ v.dist = k /\ v.space_type = s
                         /\ s.t = "Food" => v.color = FOOD_SPACE_COLOR
                         /\ s.t = "Wall" => v.color = WALL_SPACE_COLOR
                         /\ s.t = "Creature" =>
                              \E j \in 1..Len(creatures) :
                                  creatures[j].id = s.v /\ v.color = creatures[j].color

\* a step has ended in which the dead creature in front of the parent was
\* removed, a child was placed and a piece of food was added: the parent
\* now sees that child, in its darker colour, beyond the cell the dead
\* creature stood on, and the child sees the new food
C21_Witness ==
    /\ StepEnded /\ Len(creatures) >= 2 /\ Len(last_removed) = 1
    /\ food_added = 1
    /\ creatures[1].vision_state.obj_in_view
    /\ creatures[1].vision_state.space_type = CreatureSpace(creatures[2].id)
    /\ creatures[1].vision_state.dist = 2
    /\ creatures[1].vision_state.color # DEFAULT_CREATURE_COLOR
    /\ creatures[2].vision_state.obj_in_view
    /\ creatures[2].vision_state.space_type = FoodSpace
    /\ num_food = 0

\* get_next_position_for_creature has been called
NextPositionCalled == call.name = "get_next_position_for_creature"

\* the unit step a creature of the orientation faces along, as its vision
\* scans, and the one to its own left
facing_step(orientation) ==
    CASE orientation = "Up" -> [x |-> 0, y |-> -1]
      [] orientation = "Down" -> [x |-> 0, y |-> 1]
      [] orientation = "Left" -> [x |-> -1, y |-> 0]
      [] OTHER -> [x |-> 1, y |-> 0]
left_step(orientation) ==
    [x |-> facing_step(orientation).y, y |-> -facing_step(orientation).x]

\* the cell n steps from position along step d, wrapping at the grid edges
wrapped(position, d, n) ==
    Pos((position.x + n * d.x + params.env_x_size) % params.env_x_size,
        (position.y + n * d.y + params.env_y_size) % params.env_y_size)

\* the action that undoes a movement
opposite(action) ==
    CASE action = "MoveForwards" -> "MoveBackwards"
      [] action = "MoveBackwards" -> "MoveForwards"
      [] action = "MoveLeft" -> "MoveRight"
      [] action = "MoveRight" -> "MoveLeft"
      [] OTHER -> action

\* C22: the candidate cell is the neighbour in the direction relative to
\* the creature's orientation, wrapping at the grid edges: forwards the
\* cell it faces (the first cell its vision scans, when the grid has one
\* there), backwards the opposite one, left and right its own left and
\* right; opposite movements undo each other, and every other action
\* leaves the position
C22_RelativeMoves ==
    NextPositionCalled =>
        LET a == call.action
            p == call.position
            o == call.orientation
        IN  /\ call.result =
                 CASE a = "MoveForwards" -> wrapped(p, facing_step(o), 1)
                   [] a = "MoveBackwards" -> wrapped(p, facing_step(o), -1)
                   [] a = "MoveLeft" -> wrapped(p, left_step(o), 1)
                   [] a = "MoveRight" -> wrapped(p, left_step(o), -1)
                   [] OTHER -> p
            /\ (a = "MoveForwards"
                  /\ cell_ahead([position |-> p, orientation |-> o], 1)
                        \in GridCells(positions))
                 => call.result = cell_ahead([position |-> p, orientation |-> o], 1)
            /\ get_next_position_for_creature(opposite(a), call.result, o) = p

\* a creature on the left edge of the long grid, facing down, moves to its
\* own right and comes out on the right edge
C22_Witness ==
    /\ NextPositionCalled
    /\ params.env_x_size = WideLen
    /\ call.orientation = "Down" /\ call.action = "MoveRight"
    /\ call.position = Pos(0, 0)
    /\ call.result = Pos(WideLen - 1, 0)

\* the creature whose turn has just ended chose Kill, could pay for it, and
\* its vision reading named a listed creature in the adjacent cell
KillAttempted ==
    /\ TurnDone /\ turn.evaluated /\ turn.action = "Kill"
    /\ LET v == turn.before.creatures[creature_idx - 1].vision_state IN
       /\ v.obj_in_view /\ v.dist = 1 /\ v.space_type.t = "Creature"
       /\ \E j \in 1..Len(creatures) : creatures[j].id = v.space_type.v

\* the list index of the creature named by that reading
victim_of_turn ==
    CHOOSE j \in 1..Len(creatures) :
        creatures[j].id = turn.before.creatures[creature_idx - 1].vision_state.space_type.v

\* C23: a Kill of a victim that is not dead leaves the victim with energy
\* 0, not alive and marked killed, and the attacker with its energy after
\* the kill cost plus energy_per_kill, capped at MAX_POSSIBLE_ENERGY; a Kill
\* of a victim that is already dead changes nothing of the victim and the
\* attacker only pays the kill cost
C23_KillEffect ==
    KillAttempted =>
        LET i == creature_idx - 1
            j == victim_of_turn
            was == turn.before.creatures
            paid == was[i].energy - was[i].params.kill_energy_cost
        IN  IF ~is_dead(was[j])
            THEN /\ creatures[j] =
                      [was[j] EXCEPT !.energy = 0, !.is_alive = FALSE, !.killed = TRUE]
                 /\ creatures[i].energy =
                      Min(paid + params.energy_per_kill, MAX_POSSIBLE_ENERGY)
            ELSE /\ creatures[j] = was[j]
                 /\ creatures[i].energy = paid

\* the second Kill of one step on the same victim: the creature between the
\* two attackers was killed by the first one, which was filled up to
\* MAX_POSSIBLE_ENERGY, and the second attacker has only paid
C23_Witness ==
    /\ KillAttempted
    /\ creature_idx - 1 > 1
    /\ is_dead(turn.before.creatures[victim_of_turn])
    /\ creatures[victim_of_turn].killed
    /\ creatures[1].energy = MAX_POSSIBLE_ENERGY
    /\ creatures[creature_idx - 1].energy = DEFAULT_ENERGY_LEVEL - DEFAULT_KILL_ENERGY_COST

\* the step that is taken is remove_dead_creatures, after the last turn of
\* the creature loop
RemovingDead == pc = "turn" /\ creature_idx > Len(creatures) /\ pc' = "spawn"

\* C24: remove_dead_creatures takes every dead creature from the list and
\* keeps the others in their order; the cell of a killed one becomes
\* FightSpace(FIGHT_SPACE_PERSISTENCE_STEPS) and counts in num_kills, the
\* cell of any other dead one becomes BlankSpace and counts in
\* num_natural_deaths, and no other cell changes; the two counters together
\* are always the number of creatures removed so far
C24_RemovalOfDead ==
    /\ [](num_kills + num_natural_deaths = Cardinality(removed_ids))
    /\ [][RemovingDead =>
            LET dead == {i \in 1..Len(creatures) : is_dead(creatures[i])}
                killed == {i \in dead : creatures[i].killed}
            IN  /\ creatures' = SelectSeq(creatures, LAMBDA c : ~is_dead(c))
                /\ \A i \in killed :
                      CellAt(positions', creatures[i].position)
                          = FightSpace(FIGHT_SPACE_PERSISTENCE_STEPS)
                /\ \A i \in dead \ killed :
                      CellAt(positions', creatures[i].position) = BlankSpace
                /\ \A p \in GridCells(positions) :
                      (\A i \in dead : creatures[i].position # p) =>
                          CellAt(positions', p) = CellAt(positions, p)
                /\ num_kills' = num_kills + Cardinality(killed)
                /\ num_natural_deaths' = num_natural_deaths + Cardinality(dead \ killed)
                /\ removed_ids' = removed_ids \cup {creatures[i].id : i \in dead}
       ]_vars

\* one step removed a killed creature and a starved one that stood before
\* and after a survivor in the list
C24_Witness ==
    /\ pc = "spawn" /\ Len(last_removed) = 2 /\ Len(creatures) = 1
    /\ last_removed[1].id < creatures[1].id /\ creatures[1].id < last_removed[2].id
    /\ \E k \in 1..2 : last_removed[k].killed
    /\ \E k \in 1..2 : ~last_removed[k].killed
    /\ num_kills = 1 /\ num_natural_deaths = 1

\* the ids up to the next one to be given out
KnownIds == 0..num_total_creatures

\* the creature ids standing in the cells of the grid
ids_on_grid == {CellAt(positions, p).v : p \in CellsOfKind(positions, "Creature")}

\* the ids of the creatures of the list
listed_ids == {creatures[i].id : i \in 1..Len(creatures)}

\* the creature ids named by the vision readings of the creatures that
\* have yet to act in the running step (all of them between two steps)
ids_in_view ==
    {creatures[i].vision_state.space_type.v :
        i \in {j \in 1..Len(creatures) :
                 /\ pc = "turn" => j >= creature_idx
                 /\ creatures[j].vision_state.obj_in_view
                 /\ creatures[j].vision_state.space_type.t = "Creature"}}

\* C26: get_creature_idx_from_id answers with the index of a creature
\* holding the id when one is listed and with the error otherwise; every
\* CreatureSpace(id) of the grid names a listed creature whenever the grid
\* is scanned or drawn, and so does the vision reading of every creature
\* that can still attempt a Kill, so that no unwrap of a lookup fails
C26_Lookups ==
    /\ \A id \in KnownIds :
          LET idx == get_creature_idx_from_id(creatures, id) IN
          IF id \in listed_ids
          THEN idx \in 1..Len(creatures) /\ creatures[idx].id = id
          ELSE idx = 0
    /\ pc # "panic" => ids_on_grid \subseteq listed_ids
    /\ pc \in {"idle", "turn", "check"} => ids_in_view \subseteq listed_ids

\* a Kill has looked up its victim in a list from which creature 0 was
\* removed, so that the index found is not the id
C26_Witness ==
    /\ KillAttempted
    /\ 0 \in removed_ids
    /\ creatures[victim_of_turn].id # victim_of_turn - 1
    /\ ids_on_grid = listed_ids

\* a construction was asked for and no step has been taken since
ConstructionCalled == call.name \in {"new_rand", "generate_new_environment"}

\* the start population has room on the grid, and the mutation probability
\* lies in [0, 1]
fits_on_grid(prm) ==
    prm.num_start_creatures + prm.num_start_food + prm.num_start_walls
        <= prm.env_x_size * prm.env_y_size
probability_in_range(prm) ==
    0 <= prm.mutation_prob_num /\ prm.mutation_prob_num <= prm.mutation_prob_den

\* C27: a construction whose start population does not fit on the grid,
\* or whose mutation probability lies outside [0, 1], is rejected before
\* anything is built; a construction that is accepted and returns has placed
\* exactly num_start_creatures creatures, num_start_food food pieces and
\* num_start_walls walls, each on a cell of its own
C27_ConstructionValidates ==
    ConstructionCalled =>
        IF fits_on_grid(call.in_params) /\ probability_in_range(call.in_params)
        THEN call.result = "built" =>
                /\ Len(creatures) = call.in_params.num_start_creatures
                /\ count_creatures(positions) = call.in_params.num_start_creatures
                /\ count_food(positions) = call.in_params.num_start_food
                /\ count_walls(positions) = call.in_params.num_start_walls
                /\ \A i \in 1..Len(creatures) :
                      CellAt(positions, creatures[i].position)
                          = CreatureSpace(creatures[i].id)
        ELSE /\ call.result = "rejected"
             /\ pc = "idle" /\ creatures = <<>> /\ positions = EmptyGrid

\* a creature turn of the running step ended in a reproduction
Reproduced == TurnDone /\ turn.action = "Reproduce"

\* C28: the creatures of a newly built environment and all offspring start
\* with the creature_starting_energy of the environment's parameters, and
\* a reproduction costs the parent the creature_repro_energy_cost of the
\* environment's parameters
C28_EnergyParamsHonoured ==
    /\ (ConstructionCalled /\ call.result = "built") =>
          \A i \in 1..Len(creatures) :
              creatures[i].energy = params.creature_starting_energy
    /\ \A j \in 1..Len(temp_new_creatures) :
          temp_new_creatures[j].energy = params.creature_starting_energy
    /\ Reproduced =>
          creatures[creature_idx - 1].energy =
              turn.before.creatures[creature_idx - 1].energy
                  - params.creature_repro_energy_cost

\* perform_next_action was called on a living creature that is not forced
\* to reproduce
BrainDecided ==
    /\ call.name = "perform_next_action"
    /\ call.creature.energy > 0 /\ call.creature.age < MAX_POSSIBLE_AGE
    /\ call.creature.energy <= DEFAULT_MIN_REPRODUCE_ENERGY

\* the configured cost of the action the brain chose
cost_of_choice ==
    LET a == call.brain_action
        prm == call.creature.params
    IN  IF a \in {"MoveForwards", "MoveBackwards", "MoveLeft", "MoveRight"}
        THEN prm.move_energy_cost
        ELSE IF a \in {"RotateCW", "RotateCCW"} THEN prm.rotate_energy_cost
        ELSE IF a = "Kill" THEN prm.kill_energy_cost
        ELSE IF a = "Reproduce" THEN prm.reproduce_energy_cost
        ELSE 0

\* C29: a living creature below the reproduce threshold whose brain
\* chooses an action is left with max(0, energy - cost of the action);
\* when that is 0 it is marked dead and Stay is returned, so that the
\* environment, which skips a creature that is_dead, resolves nothing for
\* it; otherwise the chosen action is returned
C29_ActionCosts ==
    BrainDecided =>
        LET after == call.result.creature
            left == Max(0, call.creature.energy - cost_of_choice)
        IN  /\ call.result.evaluated
            /\ after.energy = left
            /\ IF left = 0
               THEN /\ ~after.is_alive /\ is_dead(after)
                    /\ call.result.action = "Stay"
               ELSE /\ after.is_alive
                    /\ call.result.action = call.brain_action

\* a creature with costs that all differ could not pay for the rotation
\* its brain chose, and another one could
C29_Witness ==
    /\ BrainDecided
    /\ call.creature.params = DistinctCostParams
    /\ call.brain_action = "RotateCW"
    /\ call.creature.energy = DistinctCostParams.rotate_energy_cost
    /\ call.result.action = "Stay" /\ call.result.creature.energy = 0

\* the turn that has just ended returned a movement of a creature that
\* is_dead() does not hold for, so that advance_step resolved it
MoveResolved ==
    /\ TurnDone
    /\ turn.action \in MoveActions
    /\ ~is_dead(creatures[creature_idx - 1])

\* the cell that movement aimed at
aimed_at ==
    LET was == turn.before.creatures[creature_idx - 1] IN
    get_next_position_for_creature(turn.action, was.position, was.orientation)

\* C30: a movement of a living creature onto a Blank or Fight cell leaves
\* BlankSpace on the cell it stood on, CreatureSpace(its id) on the target
\* and the target as its position; onto a Food cell the same, and its
\* energy (after the move cost) grows by energy_per_food_piece up to
\* MAX_POSSIBLE_ENERGY, the food being gone; onto the cell of another
\* creature nothing moves; no other cell and no other creature changes
C30_SuccessfulMoves ==
    MoveResolved =>
        LET i == creature_idx - 1
            was == turn.before.creatures[i]
            grid == turn.before.positions
            target == CellAt(grid, aimed_at)
            paid == was.energy - was.params.move_energy_cost
            moved == [x \in DOMAIN grid |-> [y \in DOMAIN grid[x] |->
                         IF Pos(x, y) = aimed_at THEN CreatureSpace(was.id)
                         ELSE IF Pos(x, y) = was.position THEN BlankSpace
                         ELSE grid[x][y]]]
        IN  /\ \A j \in 1..Len(creatures) :
                   j # i => creatures[j] = turn.before.creatures[j]
            /\ target.t \in {"Blank", "Fight"} =>
                   /\ positions = moved
                   /\ creatures[i].position = aimed_at
                   /\ creatures[i].energy = paid
            /\ target.t = "Food" =>
                   /\ positions = moved
                   /\ creatures[i].position = aimed_at
                   /\ creatures[i].energy =
                          Min(paid + params.energy_per_food_piece, MAX_POSSIBLE_ENERGY)
                   /\ count_food(positions) = count_food(grid) - 1
            /\ target.t = "Creature" =>
                   /\ positions = grid
                   /\ creatures[i].position = was.position
                   /\ creatures[i].energy = paid

\* a creature has just stepped onto the cell where a fight took place
C30_Witness ==
    /\ MoveResolved
    /\ CellAt(turn.before.positions, aimed_at).t = "Fight"
    /\ CellAt(positions, aimed_at) = CreatureSpace(creatures[creature_idx - 1].id)
    /\ CellAt(positions, turn.before.creatures[creature_idx - 1].position) = BlankSpace
    /\ creatures[creature_idx - 1].position = aimed_at

\* the creatures of the list as the turn that has just ended met them
listed_before == turn.before.creatures

pending_ids == {temp_new_creatures[j].id : j \in 1..Len(temp_new_creatures)}

\* the step of the offspring loop that puts the first pending creature on
\* the grid and in the list
OffspringPlaced ==
    /\ PlacingOffspring
    /\ Len(creatures') = Len(creatures) + 1

\* the tail of the step, from the end of the offspring loop to its return
StepReturns == pc = "spawn" /\ temp_new_creatures = <<>> /\ pc' \in {"idle", "check"}

\* C32: while the creatures act, the offspring spawned in the step are in
\* the pending list only, neither listed nor on the grid, each with age 0,
\* its starting energy and no action taken; an offspring is placed on a
\* cell that is blank at that moment, as it was spawned, after the dead
\* were removed; the placed creatures all stand on cells of their own; and
\* the rest of the step changes nothing of a listed creature but its vision
C32_OffspringPending ==
    /\ [](/\ pc = "turn" => pending_ids \cap (listed_ids \cup ids_on_grid) = {}
          /\ \A j \in 1..Len(temp_new_creatures) :
                /\ temp_new_creatures[j].age = 0
                /\ temp_new_creatures[j].energy
                       = temp_new_creatures[j].params.starting_energy
                /\ temp_new_creatures[j].last_action = "Stay"
          /\ pc = "spawn" =>
                \A j, k \in 1..Len(creatures) :
                    j # k => creatures[j].position # creatures[k].position)
    /\ [][OffspringPlaced =>
             LET born == creatures'[Len(creatures')] IN
             /\ born = [Head(temp_new_creatures) EXCEPT !.position = born.position]
             /\ CellAt(positions, born.position) = BlankSpace
             /\ CellAt(positions', born.position) = CreatureSpace(born.id)
             /\ SubSeq(creatures', 1, Len(creatures)) = creatures]_vars
    /\ [][StepReturns =>
             /\ Len(creatures') = Len(creatures)
             /\ \A j \in 1..Len(creatures) :
                   creatures'[j] = [creatures[j] EXCEPT
                                       !.vision_state = creatures'[j].vision_state]]_vars

\* a step has ended with two siblings placed while their parent and the
\* creature that acted after it are still listed
C32_Witness ==
    /\ StepEnded
    /\ Len(creatures) = 4
    /\ creatures[3].age = 0 /\ creatures[4].age = 0
    /\ creatures[3].energy = DEFAULT_ENERGY_LEVEL
    /\ creatures[4].id = creatures[3].id + 1
    /\ creatures[3].position # creatures[4].position
    /\ creatures[2].age > 0

\* the creatures of the start population that are still listed
StartPopulation ==
    {j \in 1..Len(creatures) : creatures[j].id < params.num_start_creatures}

\* C33: the turn of a creature that has energy left and is younger than
\* MAX_POSSIBLE_AGE raises its age by exactly 1, and no turn changes the
\* age of another creature; so a creature of the start population is as
\* old as the environment after every step, and no creature of age
\* MAX_POSSIBLE_AGE is listed once remove_dead_creatures has run, whatever
\* its energy
C33_BoundedLifetime ==
    /\ TurnDone =>
          \A j \in 1..Len(listed_before) :
              creatures[j].age =
                  IF /\ j = creature_idx - 1
                     /\ listed_before[j].energy > 0
                     /\ listed_before[j].age < MAX_POSSIBLE_AGE
                  THEN listed_before[j].age + 1
                  ELSE listed_before[j].age
    /\ pc \in {"idle", "check"} =>
          \A j \in StartPopulation : creatures[j].age = time_step
    /\ pc \in {"spawn", "idle", "check"} =>
          \A j \in 1..Len(creatures) : creatures[j].age < MAX_POSSIBLE_AGE

\* step MAX_POSSIBLE_AGE has ended with the removal of a creature of the
\* start population that still had energy
C33_Witness ==
    /\ StepEnded
    /\ time_step = MAX_POSSIBLE_AGE
    /\ \E k \in 1..Len(last_removed) :
          /\ last_removed[k].id < params.num_start_creatures
          /\ last_removed[k].age = MAX_POSSIBLE_AGE
          /\ last_removed[k].energy > 0

-----------------------------------------------------------------------------
(* Generations of brains: the copy new_offspring made is the brain of a    *)
(* listed creature from the end of the step on, and is copied in its turn  *)

\* the offspring loop of advance_step lists the child; its brain is the one
\* that senses, decides and is copied from now on
Inherit ==
    /\ pc = "brain" /\ child # NoBrain
    /\ ticks < MaxTicks
    /\ brain' = child.brain
    /\ child' = NoBrain
    /\ ticks' = ticks + 1
    /\ UNCHANGED next_action
    /\ UNCHANGED <<params, creatures, positions, time_step, num_food, num_creatures,
                   num_blank, num_walls, num_total_creatures, num_kills,
                   num_natural_deaths, pc, creature_idx, temp_new_creatures, turn,
                   created_ids, removed_ids, last_removed, inputs, food_added,
                   last_call, call>>

NextGenerations ==
    \/ NextBrain
    \/ Inherit

SpecGenerations == InitBrain /\ [][NextGenerations]_vars

\* every weight and bias of network nn lies in the initialization range
in_init_range(nn) ==
    \A l \in 1..(nn.num_layers - 1) :
        /\ \A i \in 1..Len(nn.weights[l]) : \A j \in 1..Len(nn.weights[l][i]) :
              /\ nn.weights[l][i][j] >= BRAIN_MIN_INIT_NODE_VAL
              /\ nn.weights[l][i][j] <= BRAIN_MAX_INIT_NODE_VAL
        /\ \A i \in 1..Len(nn.biases[l]) :
              /\ nn.biases[l][i][1] >= BRAIN_MIN_INIT_NODE_VAL
              /\ nn.biases[l][i][1] <= BRAIN_MAX_INIT_NODE_VAL

\* the layer sizes of network nn
layer_sizes_of(nn) == [l \in 1..nn.num_layers |-> Len(nn.activations[l])]

\* the brains of the parent's shape and mappings with every weight and bias
\* sampled anew
resampled_copies(parent) ==
    {[parent EXCEPT !.net.weights = w, !.net.biases = b] :
        w \in random_layers(layer_sizes_of(parent.net), parent.net.num_layers - 1, FALSE),
        b \in random_layers(layer_sizes_of(parent.net), parent.net.num_layers - 1, TRUE)}

output_layer_of(b) == b.net.activations[b.net.num_layers]

\* C35: evaluate_network returns Ok(i) with i below the size of the output
\* layer for the brain as it is, whatever its weights, biases and inputs,
\* and the decision get_next_action took is an action of the slot mapping,
\* never the panic of the unwrap
C35_EvaluationSelectsOutput ==
    /\ evaluate_network(brain.net).result.ok
    /\ evaluate_network(brain.net).result.v >= 0
    /\ evaluate_network(brain.net).result.v < Len(output_layer_of(brain))
    /\ next_action # "None" =>
          /\ next_action # "panic"
          /\ \E i \in 1..Len(brain.output_node_types) :
                next_action = brain.output_node_types[i]

\* a decision was taken by a brain whose output neurons all have a negative
\* bias and an activation of 0
C35_Witness ==
    /\ next_action # "None"
    /\ brain.net.activations[1][1][1] > 0
    /\ \A i \in 1..Len(output_layer_of(brain)) :
          /\ brain.net.biases[brain.net.num_layers - 1][i][1] < 0
          /\ output_layer_of(brain)[i][1] = 0

-----------------------------------------------------------------------------
(* A run that outlasts a fight space: a first step in which the brains     *)
(* answer anything, then quiet steps in which they answer Stay             *)

\* the environment of InitKill with the default energies
InitFight == InitKill /\ params.energy_per_kill = DEFAULT_ENERGY_PER_KILL

\* the head of advance_step in the long run
StartLongStep ==
    /\ pc = "idle"
    /\ ticks < FightRunTicks
    /\ positions' = [x \in XS |-> [y \in YS |-> decay_fight_space(positions[x][y])]]
    /\ num_blank' = count_blank(positions)
    /\ num_creatures' = count_creatures(positions)
    /\ num_walls' = count_walls(positions)
    /\ num_food' = count_food(positions)
    /\ temp_new_creatures' = <<>>
    /\ creature_idx' = 1
    /\ turn' = [NoTurn EXCEPT !.before = Snapshot]
    /\ pc' = "turn"
    /\ ticks' = ticks + 1
    /\ last_removed' = <<>>
    /\ call' = NoCall
    /\ UNCHANGED <<params, creatures, time_step, num_total_creatures, num_kills,
                   num_natural_deaths, created_ids, removed_ids, inputs, food_added,
                   last_call>>
    /\ UNCHANGED brainVars

\* one pass of the creature loop in the long run: from the second step on
\* every brain answers Stay
LongRunTurn == CreatureTurn /\ (ticks > 1 => inputs' = inputs)

NextFight ==
    \/ StartLongStep
    \/ LongRunTurn
    \/ RemoveDead
    \/ PlaceOffspring
    \/ FinishStep

SpecFight == InitFight /\ [][NextFight]_vars

\* the steps that have ended since the first step of the long run, the
\* step of its kills
since_kill == ticks - 1

\* the Fight cells of the grid
fight_cells == CellsOfKind(positions, "Fight")

\* C36: a creature killed in tick t leaves a FightSpace that is on the grid
\* at the end of the ticks t to t + FIGHT_SPACE_PERSISTENCE_STEPS - 1 and
\* is BlankSpace at the end of tick t + FIGHT_SPACE_PERSISTENCE_STEPS
C36_FightSpaceDuration ==
    (pc = "idle" /\ ticks >= 1) =>
        /\ since_kill < FIGHT_SPACE_PERSISTENCE_STEPS =>
              Cardinality(fight_cells) = num_kills
        /\ since_kill >= FIGHT_SPACE_PERSISTENCE_STEPS =>
              fight_cells = {}

\* what the code does: the FightSpace of a creature killed in tick t holds
\* FIGHT_SPACE_PERSISTENCE_STEPS - k at the end of tick t + k, up to
\* k = FIGHT_SPACE_PERSISTENCE_STEPS, and is BlankSpace at the end of tick
\* t + FIGHT_SPACE_PERSISTENCE_STEPS + 1
FightSpaceOneStepLonger ==
    (pc = "idle" /\ ticks >= 1) =>
        /\ since_kill <= FIGHT_SPACE_PERSISTENCE_STEPS =>
              /\ Cardinality(fight_cells) = num_kills
              /\ \A p \in fight_cells :
                    CellAt(positions, p).v = FIGHT_SPACE_PERSISTENCE_STEPS - since_kill
        /\ since_kill > FIGHT_SPACE_PERSISTENCE_STEPS =>
              fight_cells = {}

\* the fight space of a kill of the first step is still on the grid, with
\* no step left to live, at the end of the twentieth step after it
FightSpaceSeenLate ==
    /\ pc = "idle"
    /\ since_kill = FIGHT_SPACE_PERSISTENCE_STEPS
    /\ num_kills = 1
    /\ \E p \in Cells : CellAt(positions, p) = FightSpace(0)

\* C37: whenever a constructor or an advance_step has returned,
\* num_total_creatures is the number of creatures created so far: those of
\* the start population and every offspring new_offspring has made
C37_TotalCreatureCounter ==
    (pc = "idle" /\ last_call # "none") =>
        num_total_creatures = Len(created_ids)

\* the creatures the turn just resolved has killed
killed_in_turn ==
    {j \in 1..Len(listed_before) : creatures[j].killed /\ ~listed_before[j].killed}

\* C38: when the Kill of a creature succeeds, the victim stands at that
\* moment on the cell one step in front of the attacker, whether or not
\* the victim has had its turn in this step
C38_VictimAdjacent ==
    (TurnDone /\ turn.action = "Kill") =>
        \A j \in killed_in_turn :
            creatures[j].position = cell_ahead(creatures[creature_idx - 1], 1)

\* a creature was killed from two cells away: it had moved out of the cell
\* in front of the attacker earlier in the step
KilledAfterMovingAway ==
    /\ TurnDone /\ turn.action = "Kill"
    /\ \E j \in killed_in_turn :
          /\ j < creature_idx - 1
          /\ creatures[j].last_action \in MoveActions
          /\ creatures[j].position # cell_ahead(creatures[creature_idx - 1], 1)
          /\ CellAt(positions, cell_ahead(creatures[creature_idx - 1], 1)) = BlankSpace

\* the wall cells of the grid
wall_cells == CellsOfKind(positions, "Wall")

\* C39: the wall cells are those of the environment the run started with
\* in every state of every advance_step, and a cell that becomes Food or
\* the CreatureSpace of a creature that was not listed held BlankSpace
\* just before
C39_WallsImmutable ==
    /\ [](wall_cells = {Pos(0, 1)})
    /\ [][\A p \in Cells :
             /\ (CellAt(positions', p).t = "Food" /\ CellAt(positions, p).t # "Food")
                   => CellAt(positions, p) = BlankSpace
             /\ (/\ CellAt(positions', p).t = "Creature"
                 /\ CellAt(positions', p).v \notin listed_ids)
                   => CellAt(positions, p) = BlankSpace
         ]_vars

\* the second step of a run has ended with a new food piece and a new
\* offspring on the grid and with creature 0 where it was, having tried to
\* move onto the wall beside it
C39_Witness ==
    /\ StepEnded /\ ticks = 2
    /\ food_added > 0
    /\ \E j \in 1..Len(creatures) : creatures[j].id >= 6 /\ creatures[j].age = 0
    /\ creatures[1].id = 0
    /\ creatures[1].position = Pos(0, 0)
    /\ creatures[1].orientation = "Right"
    /\ creatures[1].last_action = "MoveRight"
    /\ CellAt(positions, Pos(0, 1)) = WallSpace

\* C40: perform_next_action never takes more energy from a creature than it
\* has, on the forced reproduction as on the action the brain chose, and
\* leaves it with no more energy than it had
C40_NoEnergyUnderflow ==
    call.name = "perform_next_action" =>
        /\ ~call.result.underflow
        /\ call.result.creature.energy <= call.creature.energy

\* a creature just above the reproduce threshold whose reproduction costs
\* more than it has was forced to reproduce
ForcedReproductionUnderflows ==
    /\ call.name = "perform_next_action"
    /\ call.creature.params = CostlyReproduceParams
    /\ call.creature.energy = DEFAULT_MIN_REPRODUCE_ENERGY + 1
    /\ call.result.action = "Reproduce" /\ ~call.result.evaluated
    /\ call.result.underflow

\* on the path of the brain the same creature parameters are charged with
\* a saturating subtraction
BrainPathSaturates ==
    (BrainDecided /\ call.brain_action = "Reproduce") =>
        /\ ~call.result.underflow
        /\ call.result.creature.energy =
               Max(0, call.creature.energy - call.creature.params.reproduce_energy_cost)

====
